---- MODULE Spec2Model ----
(***************************************************************************)
(* Model of the requirements matching and grouping engine of ns_server's   *)
(* cluster_tests / api_tests harness:                                      *)
(*   src/cluster_tests/testlib/requirements.py                             *)
(*   src/api_tests/testlib/requirements.py                                 *)
(*   src/cluster_tests/run.py (group_testsets and the run loop)            *)
(*                                                                         *)
(* Python strings are sequences of code points, so that str(), ==, and the *)
(* ordering used by sorted() are computed the way Python computes them.    *)
(* Python's None is the empty tuple and a present value x is <<x>>.        *)
(***************************************************************************)
EXTENDS Integers, Sequences, FiniteSets, TLC

VARIABLES
    args,               \* the arguments of the constructor that is called
    a, b,               \* two Requirement objects (operands of Requirement methods)
    api_a,              \* a Requirement object of api_tests
    r1, r2,             \* two ClusterRequirements objects (cluster_tests)
    api, api2,          \* two ClusterRequirements objects of api_tests
    cluster,            \* the observed state of the cluster
    testsets,           \* the argument of group_testsets (main: discovered_tests)
    testsets_grouped,   \* what group_testsets returned
    use_existing_server, \* main: a cluster was supplied with --cluster
    tests,              \* main: the (class_name, test_name) pairs of --tests
    group_index,        \* main: how many groups the loop has been through
    ran,                \* main: the testsets handed to run_testset so far
    returned,           \* main: what run_testset returned, call by call
    executed,           \* main: executed, the number of tests executed
    errors,             \* main: errors, the (testset_name, errors) items
    not_ran,            \* main: not_ran, the (testset_name, reason) pairs
    calls,              \* main: the calls made on collaborators so far
    pc,                 \* the call that was made last
    ret                 \* what that call returned

\* The variables of the loop of main.
run_vars ==
    <<use_existing_server, tests, group_index, ran, returned, executed,
      errors, not_ran, calls>>

vars == <<args, a, b, api_a, r1, r2, api, api2, cluster, testsets, testsets_grouped,
          run_vars, pc, ret>>

\* The loop of main has not started; tests is None.
NoRun ==
    /\ use_existing_server = FALSE /\ tests = <<>> /\ group_index = 0
    /\ ran = <<>> /\ returned = <<>> /\ executed = 0 /\ errors = <<>>
    /\ not_ran = <<>> /\ calls = <<>>

\* ---------------------------------------------------------------- bounds

\* Node counts range over 1..MaxNodes.
MaxNodes == 2
\* group_testsets is given at most MaxItems (suite, configuration) pairs.
MaxItems == 3

\* ------------------------------------------------------- Python values

None == <<>>
Some(x) == <<x>>
Val(x) == x[1]

\* The text of the string literals of the program, as code points.
Chars(s) ==
    CASE s = "edition" -> <<101, 100, 105, 116, 105, 111, 110>>
      [] s = "num_nodes" -> <<110, 117, 109, 95, 110, 111, 100, 101, 115>>
      [] s = "min_num_nodes" -> <<109, 105, 110, 95, 110, 117, 109, 95, 110, 111, 100, 101, 115>>
      [] s = "num_connected" -> <<110, 117, 109, 95, 99, 111, 110, 110, 101, 99, 116, 101, 100>>
      [] s = "min_num_connected" -> <<109, 105, 110, 95, 110, 117, 109, 95, 99, 111, 110, 110, 101, 99, 116, 101, 100>>
      [] s = "memsize" -> <<109, 101, 109, 115, 105, 122, 101>>
      [] s = "min_memsize" -> <<109, 105, 110, 95, 109, 101, 109, 115, 105, 122, 101>>
      [] s = "afamily" -> <<97, 102, 97, 109, 105, 108, 121>>
      [] s = "deploy" -> <<100, 101, 112, 108, 111, 121>>
      [] s = "services" -> <<115, 101, 114, 118, 105, 99, 101, 115>>
      [] s = "master_password_state" -> <<109, 97, 115, 116, 101, 114, 95, 112, 97, 115, 115, 119, 111, 114, 100, 95, 115, 116, 97, 116, 101>>
      [] s = "num_vbuckets" -> <<110, 117, 109, 95, 118, 98, 117, 99, 107, 101, 116, 115>>
      [] s = "encryption" -> <<101, 110, 99, 114, 121, 112, 116, 105, 111, 110>>
      [] s = "Community" -> <<67, 111, 109, 109, 117, 110, 105, 116, 121>>
      [] s = "Enterprise" -> <<69, 110, 116, 101, 114, 112, 114, 105, 115, 101>>
      [] s = "Serverless" -> <<83, 101, 114, 118, 101, 114, 108, 101, 115, 115>>
      [] s = "Provisioned" -> <<80, 114, 111, 118, 105, 115, 105, 111, 110, 101, 100>>
      [] s = "ipv4" -> <<105, 112, 118, 52>>
      [] s = "ipv6" -> <<105, 112, 118, 54>>
      [] s = "True" -> <<84, 114, 117, 101>>
      [] s = "False" -> <<70, 97, 108, 115, 101>>
      [] s = "None" -> <<78, 111, 110, 101>>
      [] s = "kv" -> <<107, 118>>
      [] s = "index" -> <<105, 110, 100, 101, 120>>
      [] s = "n1ql" -> <<110, 49, 113, 108>>
      [] s = "default" -> <<100, 101, 102, 97, 117, 108, 116>>
      [] s = "user_configured" -> <<117, 115, 101, 114, 95, 99, 111, 110, 102, 105, 103, 117, 114, 101, 100>>
      [] s = "AFamily" -> <<65, 70, 97, 109, 105, 108, 121>>
      [] s = "Edition" -> <<69, 100, 105, 116, 105, 111, 110>>
      [] s = "MasterPasswordState" -> <<77, 97, 115, 116, 101, 114, 80, 97, 115, 115, 119, 111, 114, 100, 83, 116, 97, 116, 101>>
      [] s = "MemSize" -> <<77, 101, 109, 83, 105, 122, 101>>
      [] s = "N2nEncryption" -> <<78, 50, 110, 69, 110, 99, 114, 121, 112, 116, 105, 111, 110>>
      [] s = "NumNodes" -> <<78, 117, 109, 78, 111, 100, 101, 115>>
      [] s = "NumVbuckets" -> <<78, 117, 109, 86, 98, 117, 99, 107, 101, 116, 115>>
      [] s = "Services" -> <<83, 101, 114, 118, 105, 99, 101, 115>>
      [] s = "SuiteA" -> <<83, 117, 105, 116, 101, 65>>
      [] s = "SuiteB" -> <<83, 117, 105, 116, 101, 66>>
      [] s = "SuiteC" -> <<83, 117, 105, 116, 101, 67>>
      [] s = "SuiteD" -> <<83, 117, 105, 116, 101, 68>>
      [] s = "SuiteE" -> <<83, 117, 105, 116, 101, 69>>
      [] s = "a_test" -> <<97, 95, 116, 101, 115, 116>>
      [] s = "failed" -> <<102, 97, 105, 108, 101, 100>>
      [] s = "not ran" -> <<110, 111, 116, 32, 114, 97, 110>>
      [] s = "/" -> <<47>>
      [] s = "/root/workspace/src/cluster_tests" ->
            <<47, 114, 111, 111, 116, 47, 119, 111, 114, 107, 115, 112, 97, 99, 101, 47, 115, 114, 99, 47, 99, 108, 117, 115, 116, 101, 114, 95, 116, 101, 115, 116, 115>>
      [] s = "test_cluster_data" ->
            <<116, 101, 115, 116, 95, 99, 108, 117, 115, 116, 101, 114, 95, 100, 97, 116, 97>>
      [] s = "Cannot change Requirement " ->
            <<67, 97, 110, 110, 111, 116, 32, 99, 104, 97, 110, 103, 101, 32,
              82, 101, 113, 117, 105, 114, 101, 109, 101, 110, 116, 32>>
      [] s = " after cluster created" ->
            <<32, 97, 102, 116, 101, 114, 32, 99, 108, 117, 115, 116, 101,
              114, 32, 99, 114, 101, 97, 116, 101, 100>>
      [] s = "Cluster provided does not satisfy test requirements:\n" ->
            <<67, 108, 117, 115, 116, 101, 114, 32, 112, 114, 111, 118, 105,
              100, 101, 100, 32, 100, 111, 101, 115, 32, 110, 111, 116, 32,
              115, 97, 116, 105, 115, 102, 121, 32, 116, 101, 115, 116, 32,
              114, 101, 113, 117, 105, 114, 101, 109, 101, 110, 116, 115, 58,
              10>>

Equals == <<61>>            \* "="
Comma == <<44>>             \* ","
Slash == <<47>>             \* "/"
Minus == <<45>>             \* "-"
Quote == <<39>>             \* "'"
DoubleQuote == <<34>>       \* '"'
CommaSpace == <<44, 32>>    \* ", "
LBracket == <<91>>          \* "["
RBracket == <<93>>          \* "]"
Digit(d) == <<48 + d>>      \* "0" .. "9"

\* str(n) of an int: its decimal digits, with a sign when negative.
RECURSIVE IntStr(_)
IntStr(n) ==
    IF n < 0 THEN Minus \o IntStr(-n)
    ELSE IF n < 10 THEN Digit(n)
    ELSE IntStr(n \div 10) \o Digit(n % 10)

\* str(b) of a bool.
BoolStr(bv) == IF bv THEN Chars("True") ELSE Chars("False")

\* sep.join(strs)
RECURSIVE Join(_, _)
Join(strs, sep) ==
    IF strs = <<>> THEN <<>>
    ELSE IF Len(strs) = 1 THEN strs[1]
    ELSE strs[1] \o sep \o Join(Tail(strs), sep)

\* str(l) of a list of str: "['kv', 'n1ql']".
ListStr(l) ==
    LBracket
    \o Join([i \in 1..Len(l) |-> Quote \o Chars(l[i]) \o Quote], CommaSpace)
    \o RBracket

\* s < t for two Python strings: lexicographic by code point.
RECURSIVE StrLess(_, _)
StrLess(s, t) ==
    IF t = <<>> THEN FALSE
    ELSE IF s = <<>> THEN TRUE
    ELSE IF s[1] # t[1] THEN s[1] < t[1]
    ELSE StrLess(Tail(s), Tail(t))

\* ------------------------------------------- Requirement (cluster_tests)

\* A Requirement is a record: cls is its class, kwargs the keyword arguments
\* Requirement.__init__ was given, in the order given (a value is None or the
\* text f"{value}" renders it to), and the attributes its own __init__ sets.
MaybeInt(x) == IF x = None THEN None ELSE Some(IntStr(Val(x)))
MaybeBool(x) == IF x = None THEN None ELSE Some(BoolStr(Val(x)))
MaybeText(x) == IF x = None THEN None ELSE Some(Chars(Val(x)))

\* Requirement.__str__: "key=value" of every keyword argument that is not None.
Requirement__str__(self) ==
    LET present == SelectSeq(self.kwargs, LAMBDA kv : kv[2] # None)
    IN  Join([i \in 1..Len(present) |->
                 Chars(present[i][1]) \o Equals \o Val(present[i][2])], Comma)

\* Requirement.__eq__(self, other), other a Requirement.
Requirement__eq__(self, other) ==
    Requirement__str__(self) = Requirement__str__(other)

\* Requirement.__eq__(self, other), other a str (str(other) is other).
Requirement__eq__str(self, other) ==
    Requirement__str__(self) = Chars(other)

\* Requirement.__eq__(self, other), other None (str(None) is "None").
Requirement__eq__None(self) ==
    Requirement__str__(self) = Chars("None")

\* Requirement.can_be_met, with its overrides in MemSize and N2nEncryption.
can_be_met(self) == self.cls \in {"MemSize", "N2nEncryption"}

\* Edition.editions
editions == {"Community", "Enterprise", "Serverless", "Provisioned"}

\* Edition.__init__ raises ValueError.
Edition_raises(edition) == edition = None \/ Val(edition) \notin editions

\* Edition.__init__
Edition(edition) ==
    [cls |-> "Edition",
     kwargs |-> << <<"edition", MaybeText(edition)>> >>,
     edition |-> edition]

\* NumNodes.__init__ raises ValueError: the checks of lines 261-294, in order.
NumNodes_raises(num_nodes, min_num_nodes, num_connected, min_num_connected) ==
    \/ num_nodes = None /\ min_num_nodes = None
    \/ num_nodes # None /\ min_num_nodes # None
    \/ num_connected # None /\ min_num_connected # None
    \/ num_nodes # None /\ Val(num_nodes) < 1
    \/ min_num_nodes # None /\ Val(min_num_nodes) < 1
    \/ num_connected # None /\ Val(num_connected) < 1
    \/ min_num_connected # None /\ Val(min_num_connected) < 1
    \/ /\ num_connected # None
       /\ IF num_nodes # None THEN Val(num_connected) > Val(num_nodes)
          ELSE min_num_nodes # None /\ Val(num_connected) > Val(min_num_nodes)
    \/ /\ min_num_connected # None
       /\ IF num_nodes # None THEN Val(min_num_connected) > Val(num_nodes)
          ELSE min_num_nodes # None /\ Val(min_num_connected) > Val(min_num_nodes)

\* NumNodes.__init__: the keyword arguments are kept as given; the attributes
\* num_connected / min_num_connected mirror the total-node ones when neither
\* was given.
NumNodes(num_nodes, min_num_nodes, num_connected, min_num_connected) ==
    LET mirror == num_connected = None /\ min_num_connected = None
    IN  [cls |-> "NumNodes",
         kwargs |-> << <<"num_nodes", MaybeInt(num_nodes)>>,
                       <<"min_num_nodes", MaybeInt(min_num_nodes)>>,
                       <<"num_connected", MaybeInt(num_connected)>>,
                       <<"min_num_connected", MaybeInt(min_num_connected)>> >>,
         num_nodes |-> num_nodes,
         min_num_nodes |-> min_num_nodes,
         num_connected |-> IF mirror THEN num_nodes ELSE num_connected,
         min_num_connected |-> IF mirror THEN min_num_nodes
                               ELSE min_num_connected]

\* The smallest memory quota MemSize.__init__ accepts.
MinMemSize == 256

\* The checks of MemSize.__init__ without the one of min_memsize (line 356).
MemSize_raises_min_unchecked(memsize, min_memsize) ==
    \/ memsize # None /\ min_memsize # None
    \/ memsize # None /\ Val(memsize) < MinMemSize
    \/ memsize = None /\ min_memsize = None

\* MemSize.__init__ raises: ValueError from the checks of lines 352-357, or
\* AttributeError at line 364 when neither value was given (memsize_to_use
\* was never set).
MemSize_raises(memsize, min_memsize) ==
    \/ memsize # None /\ min_memsize # None
    \/ memsize # None /\ Val(memsize) < MinMemSize
    \/ min_memsize # None /\ Val(min_memsize) < MinMemSize
    \/ memsize = None /\ min_memsize = None

\* MemSize.__init__
MemSize(memsize, min_memsize) ==
    [cls |-> "MemSize",
     kwargs |-> << <<"memsize", MaybeInt(memsize)>>,
                   <<"min_memsize", MaybeInt(min_memsize)>> >>,
     memsize |-> memsize,
     min_memsize |-> min_memsize,
     memsize_to_use |-> IF memsize # None THEN memsize ELSE min_memsize]

\* AFamily.__init__ (no validation)
AFamily(afamily) ==
    [cls |-> "AFamily",
     kwargs |-> << <<"afamily", MaybeText(afamily)>> >>,
     afamily |-> afamily]

\* Services.__init__ raises ValueError: deploy is neither a list nor a dict.
Services_raises(deploy) == deploy = None

\* Services.__init__: deploy holds the values of the Service members. A
\* list is the sequence of the values, <<"kv", "n1ql">>. A dict is
\* <<"dict", items>>, items being the sequence of its <<key, value>> in
\* insertion order, each key held as the text of its repr (the code points
\* of 'n0' with its quotes for the str, of 0 for the int). The keyword
\* argument is rendered by str: "['kv']" or "{'n0': 'kv'}".
Services(deploy) ==
    LET d == Val(deploy)
        items == d[2]
    IN  [cls |-> "Services",
         kwargs |-> << <<"deploy",
                         Some(IF Len(d) = 2 /\ d[1] = "dict"
                              THEN <<123>>
                                   \o Join([i \in 1..Len(items) |->
                                               items[i][1] \o <<58, 32>>
                                               \o Quote
                                               \o Chars(items[i][2])
                                               \o Quote], CommaSpace)
                                   \o <<125>>
                              ELSE ListStr(d))>> >>,
         deploy |-> d]

\* MasterPasswordState.__init__
MasterPasswordState(state) ==
    [cls |-> "MasterPasswordState",
     kwargs |-> << <<"master_password_state", MaybeText(state)>> >>,
     master_password_state |-> state]

\* The largest num_vbuckets NumVbuckets.__init__ accepts.
MaxNumVbuckets == 1024

\* NumVbuckets.__init__ raises: ValueError, or TypeError for None <= 0.
NumVbuckets_raises(num_vbuckets) ==
    \/ num_vbuckets = None
    \/ Val(num_vbuckets) <= 0
    \/ Val(num_vbuckets) > MaxNumVbuckets

\* NumVbuckets.__init__
NumVbuckets(num_vbuckets) ==
    [cls |-> "NumVbuckets",
     kwargs |-> << <<"num_vbuckets", MaybeInt(num_vbuckets)>> >>,
     num_vbuckets |-> num_vbuckets]

\* N2nEncryption.__init__ (no validation)
N2nEncryption(encryption) ==
    [cls |-> "N2nEncryption",
     kwargs |-> << <<"encryption", MaybeBool(encryption)>> >>,
     encryption |-> encryption]

\* ------------------------------------------------- intersection of limits

\* max(x, y)
max(x, y) == IF x >= y THEN x ELSE y

\* intersect_limits with the exact-against-min check of its second branch
\* (lines 531-532) left out.
intersect_limits_unchecked(min_val1, exact_val1, min_val2, exact_val2) ==
    IF exact_val1 # None THEN
        IF exact_val2 # None THEN
            IF Val(exact_val1) # Val(exact_val2)
            THEN <<FALSE, None, None>>
            ELSE <<TRUE, None, exact_val1>>
        ELSE
            IF Val(exact_val1) < Val(min_val2)
            THEN <<FALSE, None, None>>
            ELSE <<TRUE, None, exact_val1>>
    ELSE
        IF exact_val2 # None THEN <<TRUE, None, exact_val2>>
        ELSE <<TRUE, Some(max(Val(min_val1), Val(min_val2))), None>>

\* intersect_limits keeping the first of two mins instead of the larger
\* (line 535).
intersect_limits_first_min(min_val1, exact_val1, min_val2, exact_val2) ==
    IF exact_val1 # None THEN
        IF exact_val2 # None THEN
            IF Val(exact_val1) # Val(exact_val2)
            THEN <<FALSE, None, None>>
            ELSE <<TRUE, None, exact_val1>>
        ELSE
            IF Val(exact_val1) < Val(min_val2)
            THEN <<FALSE, None, None>>
            ELSE <<TRUE, None, exact_val1>>
    ELSE
        IF exact_val2 # None THEN
            IF Val(exact_val2) < Val(min_val1)
            THEN <<FALSE, None, None>>
            ELSE <<TRUE, None, exact_val2>>
        ELSE <<TRUE, min_val1, None>>

\* intersect_limits: (res, new_min, new_exact)
intersect_limits(min_val1, exact_val1, min_val2, exact_val2) ==
    IF exact_val1 # None THEN
        IF exact_val2 # None THEN
            IF Val(exact_val1) # Val(exact_val2)
            THEN <<FALSE, None, None>>
            ELSE <<TRUE, None, exact_val1>>
        ELSE
            IF Val(exact_val1) < Val(min_val2)
            THEN <<FALSE, None, None>>
            ELSE <<TRUE, None, exact_val1>>
    ELSE
        IF exact_val2 # None THEN
            IF Val(exact_val2) < Val(min_val1)
            THEN <<FALSE, None, None>>
            ELSE <<TRUE, None, exact_val2>>
        ELSE <<TRUE, Some(max(Val(min_val1), Val(min_val2))), None>>

\* NumNodes.intersect raises: the constructor it calls at line 345 raises.
NumNodes_intersect_raises(self, other) ==
    LET l1 == intersect_limits(self.min_num_nodes, self.num_nodes,
                               other.min_num_nodes, other.num_nodes)
        l2 == intersect_limits(self.min_num_connected, self.num_connected,
                               other.min_num_connected, other.num_connected)
    IN  l1[1] /\ l2[1] /\ NumNodes_raises(l1[3], l1[2], l2[3], l2[2])

\* NumNodes.intersect: (res, requirement or None)
NumNodes_intersect(self, other) ==
    LET l1 == intersect_limits(self.min_num_nodes, self.num_nodes,
                               other.min_num_nodes, other.num_nodes)
        l2 == intersect_limits(self.min_num_connected, self.num_connected,
                               other.min_num_connected, other.num_connected)
    IN  IF l1[1] /\ l2[1]
        THEN <<TRUE, Some(NumNodes(l1[3], l1[2], l2[3], l2[2]))>>
        ELSE <<FALSE, None>>

\* MemSize.intersect raises: the constructor it calls at line 385 raises.
MemSize_intersect_raises(self, other) ==
    LET l == intersect_limits(self.min_memsize, self.memsize,
                              other.min_memsize, other.memsize)
    IN  l[1] /\ MemSize_raises(l[3], l[2])

\* MemSize.intersect: (res, requirement or None)
MemSize_intersect(self, other) ==
    LET l == intersect_limits(self.min_memsize, self.memsize,
                              other.min_memsize, other.memsize)
    IN  IF l[1] THEN <<TRUE, Some(MemSize(l[3], l[2]))>> ELSE <<FALSE, None>>

\* Requirement.intersect with no class overriding it.
Requirement_intersect_never(self, other) == <<FALSE, None>>

\* Requirement.intersect, as dispatched on the class of self: NumNodes and
\* MemSize override it, every other class inherits (False, None).
Requirement_intersect(self, other) ==
    CASE self.cls = "NumNodes" -> NumNodes_intersect(self, other)
      [] self.cls = "MemSize" -> MemSize_intersect(self, other)
      [] OTHER -> <<FALSE, None>>

\* Requirement.intersect raises.
Requirement_intersect_raises(self, other) ==
    CASE self.cls = "NumNodes" -> NumNodes_intersect_raises(self, other)
      [] self.cls = "MemSize" -> MemSize_intersect_raises(self, other)
      [] OTHER -> FALSE

\* ---------------------------------------- ClusterRequirements (cluster_tests)

\* The keys of ClusterRequirements.requirements, in the order the dict
\* literal of __init__ inserts them (the order a dict iterates in).
Kinds == <<"edition", "num_nodes", "memsize", "afamily", "services",
           "master_password_state", "num_vbuckets", "encryption">>

\* The keyword arguments of ClusterRequirements.__init__; all default to None.
NoArgs ==
    [edition |-> None, num_nodes |-> None, min_num_nodes |-> None,
     memsize |-> None, min_memsize |-> None, num_connected |-> None,
     min_num_connected |-> None, afamily |-> None, services |-> None,
     master_password_state |-> None, num_vbuckets |-> None,
     encryption |-> None]

\* ClusterRequirements.__init__ raises: a constructor that maybe() calls does.
ClusterRequirements_raises(p) ==
    \/ p.edition # None /\ Edition_raises(p.edition)
    \/ /\ ~(p.num_nodes = None /\ p.min_num_nodes = None
            /\ p.num_connected = None /\ p.min_num_connected = None)
       /\ NumNodes_raises(p.num_nodes, p.min_num_nodes, p.num_connected,
                          p.min_num_connected)
    \/ /\ ~(p.memsize = None /\ p.min_memsize = None)
       /\ MemSize_raises(p.memsize, p.min_memsize)
    \/ p.services # None /\ Services_raises(p.services)
    \/ p.num_vbuckets # None /\ NumVbuckets_raises(p.num_vbuckets)

\* ClusterRequirements.__init__: maybe(f, args) is None when every argument
\* is None and f(args) otherwise.
ClusterRequirements(p) ==
    [requirements |->
       [edition |-> IF p.edition = None THEN None
                    ELSE Some(Edition(p.edition)),
        num_nodes |-> IF /\ p.num_nodes = None /\ p.min_num_nodes = None
                         /\ p.num_connected = None
                         /\ p.min_num_connected = None
                      THEN None
                      ELSE Some(NumNodes(p.num_nodes, p.min_num_nodes,
                                         p.num_connected, p.min_num_connected)),
        memsize |-> IF p.memsize = None /\ p.min_memsize = None THEN None
                    ELSE Some(MemSize(p.memsize, p.min_memsize)),
        afamily |-> IF p.afamily = None THEN None
                    ELSE Some(AFamily(p.afamily)),
        services |-> IF p.services = None THEN None
                     ELSE Some(Services(p.services)),
        master_password_state |->
            IF p.master_password_state = None THEN None
            ELSE Some(MasterPasswordState(p.master_password_state)),
        num_vbuckets |-> IF p.num_vbuckets = None THEN None
                         ELSE Some(NumVbuckets(p.num_vbuckets)),
        encryption |-> IF p.encryption = None THEN None
                       ELSE Some(N2nEncryption(p.encryption))]]

\* Iterating a dict yields its keys, in insertion order.
dict_keys(d) == SelectSeq(Kinds, LAMBDA k : k \in DOMAIN d)

\* ClusterRequirements.as_list: the values that are not None, in dict order.
as_list(self) ==
    LET present == SelectSeq(dict_keys(self.requirements),
                             LAMBDA k : self.requirements[k] # None)
    IN  [i \in 1..Len(present) |-> Val(self.requirements[present[i]])]

\* The stable sort of a list of <<key, element>> pairs by key: an element
\* goes after every earlier element whose key is not greater than its own.
RECURSIVE sorted_pairs(_)
sorted_pairs(pairs) ==
    IF pairs = <<>> THEN <<>>
    ELSE LET n == Len(pairs)
             front == sorted_pairs(SubSeq(pairs, 1, n - 1))
             after == {i \in 1..(n - 1) : StrLess(pairs[n][1], front[i][1])}
             pos == IF after = {} THEN n
                    ELSE CHOOSE i \in after : \A j \in after : i <= j
         IN  SubSeq(front, 1, pos - 1) \o <<pairs[n]>>
             \o SubSeq(front, pos, n - 1)

\* sorted(seq, key=...), where keys[i] is the (str) key of seq[i].
sorted(seq, keys) ==
    LET sp == sorted_pairs([i \in 1..Len(seq) |-> <<keys[i], seq[i]>>])
    IN  [i \in 1..Len(seq) |-> sp[i][2]]

\* __str__ that sorts by class name and does not put the requirements that
\* cannot be met later first.
ClusterRequirements__str__unpartitioned(self) ==
    LET l == as_list(self)
        all_reqs == sorted(l, [i \in 1..Len(l) |-> Chars(l[i].cls)])
    IN  Join([i \in 1..Len(all_reqs) |-> Requirement__str__(all_reqs[i])], Comma)

\* ClusterRequirements.__str__
ClusterRequirements__str__(self) ==
    LET l == as_list(self)
        all_reqs == sorted(l, [i \in 1..Len(l) |-> Chars(l[i].cls)])
        immutable_requirements ==
            SelectSeq(all_reqs, LAMBDA x : ~can_be_met(x))
        mutable_requirements == SelectSeq(all_reqs, LAMBDA x : can_be_met(x))
        requirements == immutable_requirements \o mutable_requirements
    IN  Join([i \in 1..Len(requirements) |->
                 Requirement__str__(requirements[i])], Comma)

\* satisfied_by that accepts every other set.
satisfied_by_always(self, other) == TRUE

\* ClusterRequirements.satisfied_by: the inner loop iterates
\* other.requirements, a dict, so other_requirement is a key of it (a str).
satisfied_by(self, other) ==
    LET l == as_list(self)
        others == dict_keys(other.requirements)
    IN  \A i \in 1..Len(l) :
            \E j \in 1..Len(others) : Requirement__eq__str(l[i], others[j])

\* r1 == r2 for two entries of the requirements dict, either of which may be
\* None: None == None is true, and a Requirement compared with None has its
\* __eq__ called with None (directly or reflected).
entry__eq__(x, y) ==
    IF x = None /\ y = None THEN TRUE
    ELSE IF x = None THEN Requirement__eq__None(Val(y))
    ELSE IF y = None THEN Requirement__eq__None(Val(x))
    ELSE Requirement__eq__(Val(x), Val(y))

\* The loop of ClusterRequirements.intersect from the i-th key on.
RECURSIVE intersect_loop(_, _, _, _)
intersect_loop(self, other, i, new_reqs) ==
    IF i > Len(Kinds) THEN <<TRUE, new_reqs>>
    ELSE
      LET k == Kinds[i]
          x == self.requirements[k]
          y == other.requirements[k]
      IN  IF entry__eq__(x, y) THEN
              intersect_loop(self, other, i + 1,
                             [new_reqs EXCEPT !.requirements[k] = x])
          ELSE IF x = None THEN
              intersect_loop(self, other, i + 1,
                             [new_reqs EXCEPT !.requirements[k] = y])
          ELSE IF y = None THEN
              intersect_loop(self, other, i + 1,
                             [new_reqs EXCEPT !.requirements[k] = x])
          ELSE
              LET res == Requirement_intersect(Val(x), Val(y))
              IN  IF res[1] THEN
                      intersect_loop(self, other, i + 1,
                                     [new_reqs EXCEPT !.requirements[k] = res[2]])
                  ELSE <<FALSE, new_reqs>>

\* ClusterRequirements.intersect: (res, new_reqs)
ClusterRequirements_intersect(self, other) ==
    intersect_loop(self, other, 1, ClusterRequirements(NoArgs))

\* ClusterRequirements.intersect raises: a Requirement.intersect it reaches
\* raises.
ClusterRequirements_intersect_raises(self, other) ==
    \E i \in 1..Len(Kinds) :
        LET x == self.requirements[Kinds[i]]
            y == other.requirements[Kinds[i]]
        IN  /\ x # None /\ y # None /\ ~entry__eq__(x, y)
            /\ Requirement_intersect_raises(Val(x), Val(y))
            /\ \A j \in 1..(i - 1) :
                   LET xj == self.requirements[Kinds[j]]
                       yj == other.requirements[Kinds[j]]
                   IN  \/ entry__eq__(xj, yj) \/ xj = None \/ yj = None
                       \/ Requirement_intersect(Val(xj), Val(yj))[1]

\* ------------------------------------------------------ bounded inputs

\* A node count or None.
Counts == {None} \cup {Some(n) : n \in 1..MaxNodes}

\* Memory quotas (MB) or None.
MemSizes == {None, Some(MinMemSize), Some(2 * MinMemSize)}

\* Every (num_nodes, min_num_nodes, num_connected, min_num_connected) that
\* NumNodes.__init__ accepts.
NumNodesArgs ==
    {t \in Counts \X Counts \X Counts \X Counts :
        ~NumNodes_raises(t[1], t[2], t[3], t[4])}

\* Every (memsize, min_memsize) that MemSize.__init__ accepts.
MemSizeArgs ==
    {t \in MemSizes \X MemSizes : ~MemSize_raises(t[1], t[2])}

\* Keyword arguments for requirement sets over edition, node count and
\* memory quota.
CoreArgs ==
    {[NoArgs EXCEPT !.edition = e,
                    !.num_nodes = n[1], !.min_num_nodes = n[2],
                    !.memsize = m[1], !.min_memsize = m[2]] :
        e \in {None, Some("Community"), Some("Enterprise")},
        n \in {<<None, None>>, <<Some(MaxNodes), None>>, <<None, Some(1)>>},
        m \in {<<None, None>>} \cup MemSizeArgs}

\* The same, with at most one of the five remaining kinds given as well.
SetArgs ==
    CoreArgs
    \cup {[p EXCEPT !.afamily = Some("ipv4")] : p \in CoreArgs}
    \cup {[p EXCEPT !.services = Some(<<"kv", "n1ql">>)] : p \in CoreArgs}
    \cup {[p EXCEPT !.master_password_state = Some("default")] : p \in CoreArgs}
    \cup {[p EXCEPT !.num_vbuckets = Some(16)] : p \in CoreArgs}
    \cup {[p EXCEPT !.encryption = Some(TRUE)] : p \in CoreArgs}

\* The requirement sets built from them.
ReqSets == {ClusterRequirements(p) : p \in {q \in SetArgs : ~ClusterRequirements_raises(q)}}

\* ----------------------------------------- calls on two requirement sets

InitSets ==
    /\ r1 \in ReqSets
    /\ r2 \in ReqSets
    /\ a = None /\ b = None /\ api = None /\ api2 = None /\ cluster = None
    /\ testsets = <<>> /\ testsets_grouped = <<>>
    /\ api_a = None
    /\ args = <<>> /\ NoRun
    /\ pc = "start" /\ ret = None

\* r1.satisfied_by(r2)
CallSatisfiedBy ==
    /\ pc = "start" /\ r1 # None
    /\ pc' = "satisfied_by"
    /\ ret' = satisfied_by(r1, r2)
    /\ UNCHANGED <<args, run_vars, a, b, api_a, r1, r2, api, api2, cluster, testsets, testsets_grouped>>

\* r1.intersect(r2)
CallIntersect ==
    /\ pc = "start"
    /\ IF ClusterRequirements_intersect_raises(r1, r2)
       THEN pc' = "raised" /\ ret' = None
       ELSE pc' = "intersect" /\ ret' = ClusterRequirements_intersect(r1, r2)
    /\ UNCHANGED <<args, run_vars, a, b, api_a, r1, r2, api, api2, cluster, testsets, testsets_grouped>>

NextSets == CallSatisfiedBy \/ CallIntersect

SpecSets == InitSets /\ [][NextSets]_vars

\* ------------------------------------------ calls on two requirements

\* Requirements of every class, built the way ClusterRequirements.__init__
\* builds them.
Requirements ==
    {Edition(Some(e)) : e \in editions}
    \cup {NumNodes(t[1], t[2], t[3], t[4]) : t \in NumNodesArgs}
    \cup {MemSize(t[1], t[2]) : t \in MemSizeArgs}
    \cup {AFamily(Some(f)) : f \in {"ipv4", "ipv6"}}
    \cup {Services(Some(d)) :
              d \in {<<"kv">>, <<"kv", "n1ql">>, <<>>,
                     <<"dict", <<>>>>,
                     <<"dict", << <<Quote \o <<110, 48>> \o Quote, "kv">> >>>>,
                     <<"dict", << <<Quote \o <<110, 49>> \o Quote, "kv">>,
                                  <<<<48>>, "n1ql">> >>>>}}
    \cup {MasterPasswordState(Some(st)) : st \in {"default", "user_configured"}}
    \cup {NumVbuckets(Some(v)) : v \in {16, MaxNumVbuckets}}
    \cup {N2nEncryption(Some(e)) : e \in BOOLEAN}

InitReq ==
    /\ a \in Requirements
    /\ b \in {x \in Requirements : x.cls = a.cls}
    /\ r1 = None /\ r2 = None /\ api = None /\ api2 = None /\ cluster = None
    /\ testsets = <<>> /\ testsets_grouped = <<>>
    /\ api_a = None
    /\ args = <<>> /\ NoRun
    /\ pc = "start" /\ ret = None

\* a.intersect(b) and b.intersect(a)
CallRequirementIntersect ==
    /\ pc = "start"
    /\ IF \/ Requirement_intersect_raises(a, b)
          \/ Requirement_intersect_raises(b, a)
       THEN pc' = "raised" /\ ret' = None
       ELSE /\ pc' = "req_intersect"
            /\ ret' = <<Requirement_intersect(a, b), Requirement_intersect(b, a)>>
    /\ UNCHANGED <<args, run_vars, a, b, api_a, r1, r2, api, api2, cluster, testsets, testsets_grouped>>

NextReq == CallRequirementIntersect

SpecReq == InitReq /\ [][NextReq]_vars

\* ------------------------------------------------ group_testsets (run.py)

\* A testset of group_testsets' input is the tuple
\* <<class_name, testset_class, test_names, configurations>>; a work item is
\* the tuple <<testset_name, testset_class, test_names>> of lines 311-312,
\* testset_name being f"{class_name}/{requirements}".
WorkItem(ts, requirements) ==
    <<Chars(ts[1]) \o Slash \o ClusterRequirements__str__(requirements),
      ts[2], ts[3]>>

\* The body of the inner loop with satisfied_by asked the other way round:
\* of the representative, against the configuration.
add_testset_reversed(grouped, ts, requirements) ==
    LET testset == WorkItem(ts, requirements)
        folded == [i \in 1..Len(grouped) |->
                      IF satisfied_by(grouped[i][1], requirements)
                      THEN <<grouped[i][1], Append(grouped[i][2], testset)>>
                      ELSE grouped[i]]
        different == \A i \in 1..Len(grouped) :
                         ~satisfied_by(grouped[i][1], requirements)
    IN  IF different THEN Append(folded, <<requirements, <<testset>>>>)
        ELSE folded

\* The body of the inner loop (lines 310-318) for one configuration: the
\* work item is appended to every group whose representative the
\* configuration is satisfied_by, and starts a group of its own when there
\* is none.
add_testset(grouped, ts, requirements) ==
    LET testset == WorkItem(ts, requirements)
        folded == [i \in 1..Len(grouped) |->
                      IF satisfied_by(requirements, grouped[i][1])
                      THEN <<grouped[i][1], Append(grouped[i][2], testset)>>
                      ELSE grouped[i]]
        different == \A i \in 1..Len(grouped) :
                         ~satisfied_by(requirements, grouped[i][1])
    IN  IF different THEN Append(folded, <<requirements, <<testset>>>>)
        ELSE folded

\* The loop over the configurations of one testset (line 309).
RECURSIVE add_configurations(_, _, _)
add_configurations(grouped, ts, j) ==
    IF j > Len(ts[4]) THEN grouped
    ELSE add_configurations(add_testset(grouped, ts, ts[4][j]), ts, j + 1)

\* The loop over the testsets (lines 307-318): the groups before sorting.
RECURSIVE group_by_requirements(_, _)
group_by_requirements(tss, grouped) ==
    IF tss = <<>> THEN grouped
    ELSE group_by_requirements(Tail(tss),
                               add_configurations(grouped, Head(tss), 1))

\* group_testsets without the final sort.
group_testsets_unsorted(tss) == group_by_requirements(tss, <<>>)

\* group_testsets: the groups, sorted by str of their requirements.
group_testsets(tss) ==
    LET grouped == group_by_requirements(tss, <<>>)
    IN  sorted(grouped, [i \in 1..Len(grouped) |->
                            ClusterRequirements__str__(grouped[i][1])])

\* The configurations the testsets declare.
ConfigA == ClusterRequirements([NoArgs EXCEPT !.edition = Some("Enterprise"),
                                              !.num_nodes = Some(1)])
ConfigB == ClusterRequirements([NoArgs EXCEPT !.edition = Some("Enterprise"),
                                              !.num_nodes = Some(1),
                                              !.memsize = Some(2 * MinMemSize)])
ConfigC == ClusterRequirements([NoArgs EXCEPT !.edition = Some("Community"),
                                              !.num_nodes = Some(1)])
ConfigE == ClusterRequirements(NoArgs)

\* The names of the testset classes, in the order they are discovered.
ClassNames == <<"SuiteA", "SuiteB", "SuiteC", "SuiteD", "SuiteE">>

\* The testsets that declare the configurations flat, in order, a new testset
\* starting at every index in starts.
MakeTestsets(flat, starts) ==
    LET firsts == SelectSeq([i \in 1..Len(flat) |-> i], LAMBDA i : i \in starts)
    IN  [j \in 1..Len(firsts) |->
            LET last == IF j = Len(firsts) THEN Len(flat)
                        ELSE firsts[j + 1] - 1
            IN  <<ClassNames[j], ClassNames[j], <<"a_test">>,
                  SubSeq(flat, firsts[j], last)>>]

\* testsets is a list of testsets declaring at most MaxItems configurations
\* in all, taken from configs.
TestsetLists(configs) ==
    \E n \in 1..MaxItems :
        \E flat \in [1..n -> configs], starts \in SUBSET (2..n) :
            testsets = MakeTestsets(flat, starts \cup {1})

InitGroup ==
    /\ TestsetLists(
          {ConfigA, ConfigB, ConfigC, ConfigE,
           ClusterRequirements([NoArgs EXCEPT !.edition = Some("Enterprise"),
                                              !.num_nodes = Some(1),
                                              !.services = Some(<<"kv">>)]),
           ClusterRequirements([NoArgs EXCEPT !.edition = Some("Enterprise"),
                                              !.num_nodes = Some(MaxNodes),
                                              !.encryption = Some(TRUE)])})
    /\ testsets_grouped = <<>>
    /\ a = None /\ b = None /\ r1 = None /\ r2 = None /\ api = None /\ api2 = None /\ cluster = None
    /\ api_a = None
    /\ args = <<>> /\ NoRun
    /\ pc = "start" /\ ret = None

\* testsets_grouped = group_testsets(testsets_to_run), run.py line 203
CallGroupTestsets ==
    /\ pc = "start"
    /\ pc' = "group_testsets"
    /\ testsets_grouped' = group_testsets(testsets)
    /\ UNCHANGED <<args, run_vars, a, b, api_a, r1, r2, api, api2, cluster, testsets, ret>>

NextGroup == CallGroupTestsets

SpecGroup == InitGroup /\ [][NextGroup]_vars

\* ------------------------------------------------------------ the cluster

\* What the harness observes of a cluster. nodes and connected_nodes are the
\* lists of Cluster; a connected node is the record of what the REST API
\* reports for it: addressFamily and nodeEncryption (its entry in the "nodes"
\* of GET /pools/nodes), services (the entry marked thisNode when the node
\* itself is asked) and passwordState (GET /nodes/self/secretsManagement).
NodeV4 == [addressFamily |-> "inet", nodeEncryption |-> FALSE,
           services |-> {"kv"}, passwordState |-> "default"]
NodeV6 == [addressFamily |-> "inet6", nodeEncryption |-> TRUE,
           services |-> {"kv", "n1ql"}, passwordState |-> "user_configured"]

\* The connected nodes of a cluster of c connected nodes: all alike, or the
\* last one unlike the others.
ConnectedNodes(c) ==
    {[i \in 1..c |-> NodeV4], [i \in 1..c |-> NodeV6],
     [i \in 1..c |-> IF i = c THEN NodeV6 ELSE NodeV4]}

\* The clusters of the model: no more nodes connected than there are nodes.

Clusters ==
    {[is_enterprise |-> f[1], is_serverless |-> f[2], is_provisioned |-> f[3],
      nodes |-> [i \in 1..n[1] |-> i],
      connected_nodes |-> n[2],
      memsize |-> m,
      default_num_vbuckets |-> v] :
        f \in BOOLEAN \X BOOLEAN \X BOOLEAN,
        n \in {t \in (1..MaxNodes)
                        \X UNION {ConnectedNodes(c) : c \in 1..MaxNodes} :
                    Len(t[2]) <= t[1]},
        m \in {MinMemSize, 2 * MinMemSize},
        v \in {16, MaxNumVbuckets}}

\* ------------------------------------------------- is_met (cluster_tests)

\* Edition.is_met that looks at is_enterprise only, taking every enterprise
\* build for each of the enterprise editions.
Edition_is_met_enterprise_only(self, cl) ==
    IF Val(self.edition) = "Community" THEN ~cl.is_enterprise
    ELSE cl.is_enterprise

\* Edition.is_met
Edition_is_met(self, cl) ==
    CASE Val(self.edition) = "Community" ->
            ~cl.is_enterprise /\ ~cl.is_serverless
      [] Val(self.edition) = "Enterprise" ->
            cl.is_enterprise /\ ~cl.is_serverless
      [] Val(self.edition) = "Serverless" ->
            cl.is_enterprise /\ cl.is_serverless
      [] Val(self.edition) = "Provisioned" ->
            cl.is_enterprise /\ cl.is_provisioned

\* NumNodes.is_met
NumNodes_is_met(self, cl) ==
    IF self.num_nodes # None /\ Len(cl.nodes) # Val(self.num_nodes)
    THEN FALSE
    ELSE IF /\ self.num_connected # None
            /\ Len(cl.connected_nodes) # Val(self.num_connected)
    THEN FALSE
    ELSE IF self.min_num_nodes # None /\ Len(cl.nodes) < Val(self.min_num_nodes)
    THEN FALSE
    ELSE IF /\ self.min_num_connected # None
            /\ Len(cl.connected_nodes) < Val(self.min_num_connected)
    THEN FALSE
    ELSE TRUE

\* MemSize.is_met
MemSize_is_met(self, cl) ==
    IF self.memsize # None THEN cl.memsize = Val(self.memsize)
    ELSE cl.memsize >= Val(self.min_memsize)

\* afamily_translate of AFamily.is_met
afamily_translate(afamily) ==
    CASE afamily = "ipv4" -> "inet"
      [] afamily = "ipv6" -> "inet6"

\* AFamily.is_met
AFamily_is_met(self, cl) ==
    \A i \in 1..Len(cl.connected_nodes) :
        cl.connected_nodes[i].addressFamily
            = afamily_translate(Val(self.afamily))

\* Services.is_met: every connected node runs every one of its
\* services_to_check. For a deploy list these are the services of the list.
\* For a deploy dict they are self.deploy['n<i>'] for the i-th connected
\* node, counted from 0, when there is such a key: a str, so that the loop
\* of line 448 takes its characters one by one.
Services_is_met(self, cl) ==
    \A i \in 1..Len(cl.connected_nodes) :
        LET this_node_services == cl.connected_nodes[i].services
            nname == Quote \o <<110>> \o IntStr(i - 1) \o Quote
        IN  IF Len(self.deploy) = 2 /\ self.deploy[1] = "dict"
            THEN \A k \in 1..Len(self.deploy[2]) :
                     self.deploy[2][k][1] = nname
                     => LET services_to_check == Chars(self.deploy[2][k][2])
                        IN  \A j \in 1..Len(services_to_check) :
                                \E s \in this_node_services :
                                    Chars(s) = <<services_to_check[j]>>
            ELSE \A j \in 1..Len(self.deploy) :
                     self.deploy[j] \in this_node_services

\* MasterPasswordState.is_met
MasterPasswordState_is_met(self, cl) ==
    \A i \in 1..Len(cl.connected_nodes) :
        cl.connected_nodes[i].passwordState = Val(self.master_password_state)

\* NumVbuckets.is_met
NumVbuckets_is_met(self, cl) ==
    cl.default_num_vbuckets = Val(self.num_vbuckets)

\* N2nEncryption.is_met
N2nEncryption_is_met(self, cl) ==
    \A i \in 1..Len(cl.connected_nodes) :
        cl.connected_nodes[i].nodeEncryption = Val(self.encryption)

\* requirement.is_met(cluster), as dispatched on the class of requirement.
is_met(self, cl) ==
    CASE self.cls = "Edition" -> Edition_is_met(self, cl)
      [] self.cls = "NumNodes" -> NumNodes_is_met(self, cl)
      [] self.cls = "MemSize" -> MemSize_is_met(self, cl)
      [] self.cls = "AFamily" -> AFamily_is_met(self, cl)
      [] self.cls = "Services" -> Services_is_met(self, cl)
      [] self.cls = "MasterPasswordState" -> MasterPasswordState_is_met(self, cl)
      [] self.cls = "NumVbuckets" -> NumVbuckets_is_met(self, cl)
      [] self.cls = "N2nEncryption" -> N2nEncryption_is_met(self, cl)

\* The loop of is_satisfiable over a list of requirements, from the i-th on;
\* acc is <<satisfiable, unsatisfied>>.
RECURSIVE is_satisfiable_loop(_, _, _, _)
is_satisfiable_loop(l, cl, i, acc) ==
    IF i > Len(l) THEN acc
    ELSE IF ~is_met(l[i], cl)
    THEN is_satisfiable_loop(l, cl, i + 1,
             <<IF ~can_be_met(l[i]) THEN FALSE ELSE acc[1],
               Append(acc[2], l[i])>>)
    ELSE is_satisfiable_loop(l, cl, i + 1, acc)

\* is_satisfiable with satisfiable cleared by every unmet requirement, as if
\* the can_be_met test of line 134 were missing.
is_satisfiable_strict(self, cl) ==
    LET res == is_satisfiable_loop(as_list(self), cl, 1, <<TRUE, <<>>>>)
    IN  <<res[2] = <<>>, res[2]>>

\* ClusterRequirements.is_satisfiable: (satisfiable, unsatisfied)
is_satisfiable(self, cl) ==
    is_satisfiable_loop(as_list(self), cl, 1, <<TRUE, <<>>>>)

\* The loop of get_unmet_requirements, from the i-th requirement on.
RECURSIVE get_unmet_loop(_, _, _, _)
get_unmet_loop(l, cl, i, unmet_requirements) ==
    IF i > Len(l) THEN unmet_requirements
    ELSE get_unmet_loop(l, cl, i + 1,
             IF ~is_met(l[i], cl) THEN Append(unmet_requirements, l[i])
             ELSE unmet_requirements)

\* ClusterRequirements.get_unmet_requirements
get_unmet_requirements(self, cl) == get_unmet_loop(as_list(self), cl, 1, <<>>)

\* ----------------------------------------------- requirements (api_tests)

\* Requirement.__str__ of api_tests: "key=value" of every keyword argument.
Api_Requirement__str__(self) ==
    Join([i \in 1..Len(self.kwargs) |->
             Chars(self.kwargs[i][1]) \o Equals \o self.kwargs[i][2]], Comma)

\* Requirement.__eq__ of api_tests
Api_Requirement__eq__(self, other) ==
    Api_Requirement__str__(self) = Api_Requirement__str__(other)

\* Requirement.can_be_met of api_tests, with its override in MemSize.
Api_can_be_met(self) == self.cls = "MemSize"

\* Edition.editions of api_tests
Api_editions == {"Community", "Enterprise", "Serverless"}

\* Edition.__init__ of api_tests
Api_Edition(edition) ==
    [cls |-> "Edition",
     kwargs |-> << <<"edition", Chars(edition)>> >>,
     edition |-> edition]

\* NumNodes.__init__ of api_tests raises ValueError.
Api_NumNodes_raises(num_nodes, num_connected) ==
    LET connected == IF num_connected = None THEN num_nodes
                     ELSE Val(num_connected)
    IN  num_nodes < 1 \/ connected < 1

\* NumNodes.__init__ of api_tests: num_connected None stands for num_nodes.
Api_NumNodes(num_nodes, num_connected) ==
    LET connected == IF num_connected = None THEN num_nodes
                     ELSE Val(num_connected)
    IN  [cls |-> "NumNodes",
         kwargs |-> << <<"num_nodes", IntStr(num_nodes)>>,
                       <<"num_connected", IntStr(connected)>> >>,
         num_nodes |-> num_nodes,
         num_connected |-> Some(connected)]

\* MemSize.__init__ of api_tests raises ValueError.
Api_MemSize_raises(memsize) == memsize < MinMemSize

\* MemSize.__init__ of api_tests
Api_MemSize(memsize) ==
    [cls |-> "MemSize",
     kwargs |-> << <<"memsize", IntStr(memsize)>> >>,
     memsize |-> memsize]

\* ClusterRequirements.__init__ of api_tests raises.
Api_ClusterRequirements_raises(edition, num_nodes, memsize, num_connected) ==
    \/ edition \notin Api_editions
    \/ Api_NumNodes_raises(num_nodes, num_connected)
    \/ Api_MemSize_raises(memsize)

\* ClusterRequirements.__init__ of api_tests: requirements is a list.
Api_ClusterRequirements(edition, num_nodes, memsize, num_connected) ==
    [requirements |-> <<Api_Edition(edition),
                        Api_NumNodes(num_nodes, num_connected),
                        Api_MemSize(memsize)>>]

\* Edition.is_met of api_tests
Api_Edition_is_met(self, cl) ==
    CASE self.edition = "Community" -> ~cl.is_enterprise /\ ~cl.is_serverless
      [] self.edition = "Enterprise" -> cl.is_enterprise /\ ~cl.is_serverless
      [] self.edition = "Serverless" -> cl.is_enterprise /\ cl.is_serverless

\* NumNodes.is_met of api_tests
Api_NumNodes_is_met(self, cl) ==
    /\ Len(cl.nodes) >= self.num_nodes
    /\ \/ /\ self.num_connected = None
          /\ Len(cl.connected_nodes) >= self.num_nodes
       \/ /\ self.num_connected # None
          /\ Len(cl.connected_nodes) >= Val(self.num_connected)

\* MemSize.is_met of api_tests
Api_MemSize_is_met(self, cl) == cl.memsize = self.memsize

\* requirement.is_met(cluster) of api_tests, dispatched on the class.
Api_is_met(self, cl) ==
    CASE self.cls = "Edition" -> Api_Edition_is_met(self, cl)
      [] self.cls = "NumNodes" -> Api_NumNodes_is_met(self, cl)
      [] self.cls = "MemSize" -> Api_MemSize_is_met(self, cl)

\* The loop of is_satisfiable of api_tests, from the i-th requirement on.
RECURSIVE Api_is_satisfiable_loop(_, _, _, _)
Api_is_satisfiable_loop(l, cl, i, acc) ==
    IF i > Len(l) THEN acc
    ELSE IF ~Api_is_met(l[i], cl)
    THEN Api_is_satisfiable_loop(l, cl, i + 1,
             <<IF ~Api_can_be_met(l[i]) THEN FALSE ELSE acc[1],
               Append(acc[2], l[i])>>)
    ELSE Api_is_satisfiable_loop(l, cl, i + 1, acc)

\* ClusterRequirements.is_satisfiable of api_tests
Api_is_satisfiable(self, cl) ==
    Api_is_satisfiable_loop(self.requirements, cl, 1, <<TRUE, <<>>>>)

\* The api_tests requirement sets of the model.
ApiReqSets ==
    {Api_ClusterRequirements(e, n, m, c) :
        e \in Api_editions, n \in 1..MaxNodes,
        m \in {MinMemSize, 2 * MinMemSize}, c \in Counts}

\* ------------------------------- calls on a requirement set and a cluster

InitCluster ==
    /\ cluster \in Clusters
    /\ \/ r1 \in ReqSets /\ api = None
       \/ r1 = None /\ api \in ApiReqSets
    /\ a = None /\ b = None /\ r2 = None /\ api2 = None
    /\ testsets = <<>> /\ testsets_grouped = <<>>
    /\ api_a = None
    /\ args = <<>> /\ NoRun
    /\ pc = "start" /\ ret = None

\* r1.is_satisfiable(cluster)
CallIsSatisfiable ==
    /\ pc = "start" /\ r1 # None
    /\ pc' = "is_satisfiable"
    /\ ret' = is_satisfiable(r1, cluster)
    /\ UNCHANGED <<args, run_vars, a, b, api_a, r1, r2, api, api2, cluster, testsets, testsets_grouped>>

\* r1.get_unmet_requirements(cluster) that sets the memory quota when the
\* MemSize of r1 is unmet, as make_met would.
CallGetUnmetRequirementsMaking ==
    /\ pc = "start" /\ r1 # None
    /\ pc' = "get_unmet_requirements"
    /\ ret' = get_unmet_requirements(r1, cluster)
    /\ cluster' = IF /\ r1.requirements.memsize # None
                     /\ ~is_met(Val(r1.requirements.memsize), cluster)
                  THEN [cluster EXCEPT !.memsize =
                           Val(Val(r1.requirements.memsize).memsize_to_use)]
                  ELSE cluster
    /\ UNCHANGED <<args, run_vars, a, b, api_a, r1, r2, api, api2, testsets, testsets_grouped>>

\* r1.get_unmet_requirements(cluster)
CallGetUnmetRequirements ==
    /\ pc = "start" /\ r1 # None
    /\ pc' = "get_unmet_requirements"
    /\ ret' = get_unmet_requirements(r1, cluster)
    /\ UNCHANGED <<args, run_vars, a, b, api_a, r1, r2, api, api2, cluster, testsets, testsets_grouped>>

\* api.is_satisfiable(cluster)
CallApiIsSatisfiable ==
    /\ pc = "start" /\ api # None
    /\ pc' = "api_is_satisfiable"
    /\ ret' = Api_is_satisfiable(api, cluster)
    /\ UNCHANGED <<args, run_vars, a, b, api_a, r1, r2, api, api2, cluster, testsets, testsets_grouped>>

NextCluster ==
    CallIsSatisfiable \/ CallGetUnmetRequirements \/ CallApiIsSatisfiable

SpecCluster == InitCluster /\ [][NextCluster]_vars

\* ------------- satisfied_by, then is_satisfiable on the other's cluster

\* ClusterRequirements.satisfied_by of api_tests: requirements is a list, so
\* other_requirement is a Requirement.
Api_satisfied_by(self, other) ==
    \A i \in 1..Len(self.requirements) :
        \E j \in 1..Len(other.requirements) :
            Api_Requirement__eq__(self.requirements[i], other.requirements[j])

\* Requirement sets over edition, exact node count, memory quota and
\* encryption.
CarrySets ==
    {ClusterRequirements([NoArgs EXCEPT !.edition = e, !.num_nodes = n,
                                        !.memsize = m[1], !.min_memsize = m[2],
                                        !.encryption = x]) :
        e \in {None, Some("Enterprise")},
        n \in {None, Some(MaxNodes)},
        m \in {<<None, None>>, <<Some(MinMemSize), None>>,
               <<None, Some(MinMemSize)>>},
        x \in {None, Some(TRUE)}}

\* Requirement sets of api_tests.
ApiCarrySets ==
    {Api_ClusterRequirements(e, n, m, c) :
        e \in {"Community", "Enterprise"}, n \in 1..MaxNodes,
        m \in {MinMemSize, 2 * MinMemSize}, c \in {None, Some(1)}}

\* Two requirement sets and a cluster on which every requirement of the
\* second one is met (a cluster made for the second one).
InitCarry ==
    /\ \/ /\ r1 \in CarrySets /\ r2 \in CarrySets
          /\ api = None /\ api2 = None
          /\ cluster \in {c \in Clusters : get_unmet_requirements(r2, c) = <<>>}
       \/ /\ api \in ApiCarrySets /\ api2 \in ApiCarrySets
          /\ r1 = None /\ r2 = None
          /\ cluster \in {c \in Clusters :
                             Api_is_satisfiable(api2, c) = <<TRUE, <<>>>>}
    /\ a = None /\ b = None
    /\ testsets = <<>> /\ testsets_grouped = <<>>
    /\ api_a = None
    /\ args = <<>> /\ NoRun
    /\ pc = "start" /\ ret = None

\* r1.is_satisfiable(cluster), once r1.satisfied_by(r2) returned True
CallIsSatisfiableCarried ==
    /\ pc = "satisfied_by" /\ ret = TRUE /\ cluster # None
    /\ pc' = "carried"
    /\ ret' = is_satisfiable(r1, cluster)
    /\ UNCHANGED <<args, run_vars, a, b, api_a, r1, r2, api, api2, cluster, testsets, testsets_grouped>>

\* api.satisfied_by(api2)
CallApiSatisfiedBy ==
    /\ pc = "start" /\ api # None /\ api2 # None
    /\ pc' = "api_satisfied_by"
    /\ ret' = Api_satisfied_by(api, api2)
    /\ UNCHANGED <<args, run_vars, a, b, api_a, r1, r2, api, api2, cluster, testsets, testsets_grouped>>

\* api.is_satisfiable(cluster), once api.satisfied_by(api2) returned True
CallApiIsSatisfiableCarried ==
    /\ pc = "api_satisfied_by" /\ ret = TRUE
    /\ pc' = "api_carried"
    /\ ret' = Api_is_satisfiable(api, cluster)
    /\ UNCHANGED <<args, run_vars, a, b, api_a, r1, r2, api, api2, cluster, testsets, testsets_grouped>>

NextCarry ==
    \/ CallSatisfiedBy
    \/ CallIsSatisfiableCarried
    \/ CallApiSatisfiedBy
    \/ CallApiIsSatisfiableCarried

SpecCarry == InitCarry /\ [][NextCarry]_vars

\* ------------------------------------------------ a == b on requirements

\* The requirements a caller can construct: those above, and the ones whose
\* constructor accepts None as its only argument (AFamily,
\* MasterPasswordState and N2nEncryption check nothing).
Constructible ==
    Requirements
    \cup {AFamily(None), MasterPasswordState(None), N2nEncryption(None)}

InitEq ==
    /\ a \in Constructible
    /\ b \in Constructible
    /\ r1 = None /\ r2 = None /\ api = None /\ api2 = None /\ cluster = None
    /\ testsets = <<>> /\ testsets_grouped = <<>>
    /\ api_a = None
    /\ args = <<>> /\ NoRun
    /\ pc = "start" /\ ret = None

\* a == b
CallEq ==
    /\ pc = "start"
    /\ pc' = "eq"
    /\ ret' = Requirement__eq__(a, b)
    /\ UNCHANGED <<args, run_vars, a, b, api_a, r1, r2, api, api2, cluster, testsets, testsets_grouped>>

NextEq == CallEq

SpecEq == InitEq /\ [][NextEq]_vars

\* ------------------------------------------------------ str(requirements)

\* ClusterRequirements.__str__ of api_tests: the list as it is, the
\* requirements that cannot be met later first.
Api_ClusterRequirements__str__(self) ==
    LET immutable_requirements ==
            SelectSeq(self.requirements, LAMBDA x : ~Api_can_be_met(x))
        mutable_requirements ==
            SelectSeq(self.requirements, LAMBDA x : Api_can_be_met(x))
        requirements == immutable_requirements \o mutable_requirements
    IN  Join([i \in 1..Len(requirements) |->
                 Api_Requirement__str__(requirements[i])], Comma)

\* Keyword arguments that give all eight kinds.
FullArgs ==
    {[p EXCEPT !.afamily = Some("ipv6"),
               !.services = Some(<<"kv">>),
               !.master_password_state = Some("default"),
               !.num_vbuckets = Some(MaxNumVbuckets),
               !.encryption = Some(FALSE)] : p \in CoreArgs}

\* Requirement sets with few and with many kinds present.
StrSets ==
    ReqSets
    \cup {ClusterRequirements(p) :
             p \in {q \in FullArgs : ~ClusterRequirements_raises(q)}}

InitStr ==
    /\ \/ r1 \in StrSets /\ api = None
       \/ r1 = None /\ api \in ApiReqSets
    /\ a = None /\ b = None /\ r2 = None /\ api2 = None /\ cluster = None
    /\ testsets = <<>> /\ testsets_grouped = <<>>
    /\ api_a = None
    /\ args = <<>> /\ NoRun
    /\ pc = "start" /\ ret = None

\* str(r1)
CallStr ==
    /\ pc = "start" /\ r1 # None
    /\ pc' = "str"
    /\ ret' = ClusterRequirements__str__(r1)
    /\ UNCHANGED <<args, run_vars, a, b, api_a, r1, r2, api, api2, cluster, testsets, testsets_grouped>>

\* str(api)
CallApiStr ==
    /\ pc = "start" /\ api # None
    /\ pc' = "api_str"
    /\ ret' = Api_ClusterRequirements__str__(api)
    /\ UNCHANGED <<args, run_vars, a, b, api_a, r1, r2, api, api2, cluster, testsets, testsets_grouped>>

NextStr == CallStr \/ CallApiStr

SpecStr == InitStr /\ [][NextStr]_vars

\* ------------------------------------------------ requirement.is_met(cluster)

\* The requirements of api_tests a caller can construct. NumNodes.__init__
\* of api_tests does not compare num_connected with num_nodes.
ApiRequirements ==
    {Api_Edition(e) : e \in Api_editions}
    \cup {Api_NumNodes(n, c) : n \in 1..MaxNodes, c \in Counts}
    \cup {Api_MemSize(m) : m \in {MinMemSize, 2 * MinMemSize}}

InitMet ==
    /\ cluster \in Clusters
    /\ \/ a \in Requirements /\ api_a = None
       \/ a = None /\ api_a \in ApiRequirements
    /\ b = None /\ r1 = None /\ r2 = None /\ api = None /\ api2 = None
    /\ testsets = <<>> /\ testsets_grouped = <<>>
    /\ args = <<>> /\ NoRun
    /\ pc = "start" /\ ret = None

\* a.is_met(cluster)
CallIsMet ==
    /\ pc = "start" /\ a # None
    /\ pc' = "is_met"
    /\ ret' = is_met(a, cluster)
    /\ UNCHANGED <<args, run_vars, a, b, api_a, r1, r2, api, api2, cluster, testsets, testsets_grouped>>

\* api_a.is_met(cluster)
CallApiIsMet ==
    /\ pc = "start" /\ api_a # None
    /\ pc' = "api_is_met"
    /\ ret' = Api_is_met(api_a, cluster)
    /\ UNCHANGED <<args, run_vars, a, b, api_a, r1, r2, api, api2, cluster, testsets, testsets_grouped>>

NextMet == CallIsMet \/ CallApiIsMet

SpecMet == InitMet /\ [][NextMet]_vars

\* --------------------------------------------------- calling constructors

\* Counts a caller may pass, valid or not.
AnyCounts == {None} \cup {Some(n) : n \in 0..MaxNodes}

\* Memory quotas a caller may pass, valid or not.
AnyMemSizes == {None, Some(MinMemSize - 1), Some(MinMemSize), Some(2 * MinMemSize)}

\* The class that is constructed and its positional arguments.
InitNew ==
    /\ args \in ({"NumNodes"} \X (AnyCounts \X AnyCounts \X AnyCounts \X AnyCounts))
          \cup ({"MemSize"} \X (AnyMemSizes \X AnyMemSizes))
          \cup ({"api_tests.NumNodes"} \X ((0..MaxNodes) \X AnyCounts))
    /\ a = None /\ b = None /\ api_a = None
    /\ r1 = None /\ r2 = None /\ api = None /\ api2 = None /\ cluster = None
    /\ testsets = <<>> /\ testsets_grouped = <<>>
    /\ NoRun
    /\ pc = "start" /\ ret = None

\* NumNodes(num_nodes, min_num_nodes, num_connected, min_num_connected)
CallNumNodes ==
    /\ pc = "start" /\ args[1] = "NumNodes"
    /\ LET t == args[2]
       IN  IF NumNodes_raises(t[1], t[2], t[3], t[4])
           THEN pc' = "raised" /\ a' = a
           ELSE pc' = "constructed" /\ a' = NumNodes(t[1], t[2], t[3], t[4])
    /\ UNCHANGED <<args, run_vars, b, api_a, r1, r2, api, api2, cluster,
                   testsets, testsets_grouped, ret>>

\* MemSize(memsize, min_memsize)
CallMemSize ==
    /\ pc = "start" /\ args[1] = "MemSize"
    /\ LET t == args[2]
       IN  IF MemSize_raises(t[1], t[2])
           THEN pc' = "raised" /\ a' = a
           ELSE pc' = "constructed" /\ a' = MemSize(t[1], t[2])
    /\ UNCHANGED <<args, run_vars, b, api_a, r1, r2, api, api2, cluster,
                   testsets, testsets_grouped, ret>>

\* NumNodes(num_nodes, num_connected) of api_tests
CallApiNumNodes ==
    /\ pc = "start" /\ args[1] = "api_tests.NumNodes"
    /\ LET t == args[2]
       IN  IF Api_NumNodes_raises(t[1], t[2])
           THEN pc' = "raised" /\ api_a' = api_a
           ELSE pc' = "constructed" /\ api_a' = Api_NumNodes(t[1], t[2])
    /\ UNCHANGED <<args, run_vars, a, b, r1, r2, api, api2, cluster,
                   testsets, testsets_grouped, ret>>

NextNew == CallNumNodes \/ CallMemSize \/ CallApiNumNodes

SpecNew == InitNew /\ [][NextNew]_vars

\* ------------------------------------- start and connect arguments

\* A dict as the sequence of its (key, value) items: d[k] = v keeps the
\* place of a key that is there and appends a new one.
dict_set(d, k, v) ==
    IF \E i \in 1..Len(d) : d[i][1] = k
    THEN [i \in 1..Len(d) |-> IF d[i][1] = k THEN <<k, v>> ELSE d[i]]
    ELSE Append(d, <<k, v>>)

\* d.update(e)
RECURSIVE dict_update(_, _)
dict_update(d, e) ==
    IF e = <<>> THEN d
    ELSE dict_update(dict_set(d, Head(e)[1], Head(e)[2]), Tail(e))

\* d[k] of a dict that has the key k.
dict_get(d, k) == d[CHOOSE i \in 1..Len(d) : d[i][1] = k][2]

\* k in d
dict_has(d, k) == \E i \in 1..Len(d) : d[i][1] = k

\* requirement.start_args, as __init__ of its class leaves it: the values
\* are Some(value), or None for Python's None.
start_args(self) ==
    CASE self.cls = "Edition" ->
            IF self.edition = Some("Community")
            THEN << <<"force_community", Some(TRUE)>>,
                    <<"run_serverless", Some(FALSE)>> >>
            ELSE IF self.edition = Some("Enterprise")
            THEN << <<"force_community", Some(FALSE)>>,
                    <<"run_serverless", Some(FALSE)>> >>
            ELSE IF self.edition = Some("Serverless")
            THEN << <<"force_community", Some(FALSE)>>,
                    <<"run_serverless", Some(TRUE)>> >>
            ELSE IF self.edition = Some("Provisioned")
            THEN << <<"force_community", Some(FALSE)>>,
                    <<"run_provisioned", Some(TRUE)>> >>
            ELSE <<>>
      [] self.cls = "NumNodes" ->
            << <<"num_nodes", IF self.num_nodes # None THEN self.num_nodes
                              ELSE self.min_num_nodes>> >>
      [] self.cls = "NumVbuckets" ->
            << <<"num_vbuckets", self.num_vbuckets>> >>
      [] OTHER -> <<>>

\* NumNodes.connect_args (lines 306-315); num_connected and
\* min_num_connected are the attributes after the placeholder was filled.
NumNodes_connect_args(self) ==
    << <<"num_nodes", IF self.num_connected # None THEN self.num_connected
                      ELSE self.min_num_nodes>> >>
    \o (IF \/ self.num_connected # None /\ Val(self.num_connected) > 1
           \/ self.min_num_connected # None
              /\ Val(self.min_num_connected) > 1
        THEN << <<"do_rebalance", Some(TRUE)>>,
                <<"do_wait_for_rebalance", Some(TRUE)>> >>
        ELSE << <<"do_rebalance", Some(FALSE)>> >>)

\* requirement.connect_args, as __init__ of its class leaves it.
connect_args(self) ==
    CASE self.cls = "NumNodes" -> NumNodes_connect_args(self)
      [] self.cls = "MemSize" -> << <<"memsize", self.memsize_to_use>> >>
      [] self.cls = "AFamily" -> << <<"protocol", self.afamily>> >>
      [] self.cls = "Services" -> << <<"deploy", Some(self.deploy)>> >>
      [] self.cls = "N2nEncryption" -> << <<"encryption", self.encryption>> >>
      [] OTHER -> <<>>

\* ClusterRequirements.get_default_start_args
get_default_start_args ==
    << <<"dont_rename", Some(TRUE)>>,
       <<"wait_for_start", Some(TRUE)>>,
       <<"nooutput", Some(TRUE)>>,
       <<"num_nodes", Some(1)>>,
       <<"num_vbuckets", Some(16)>>,
       <<"env", Some(<< <<"BYPASS_SASLAUTHD", None>> >>)>> >>

\* ClusterRequirements.get_default_connect_args
get_default_connect_args(start) ==
    << <<"protocol", Some("ipv4")>>,
       <<"num_nodes", dict_get(start, "num_nodes")>>,
       <<"create_bucket", Some(FALSE)>> >>

\* d.update(e) for every dict e of the list l from the i-th on.
RECURSIVE update_all(_, _, _)
update_all(d, l, i) ==
    IF i > Len(l) THEN d
    ELSE update_all(dict_update(d, l[i]), l, i + 1)

\* The start_args of create_cluster with the defaults applied last, over
\* what the requirements supply.
create_cluster_start_args_defaults_last(self, start_index, tmp_cluster_dir) ==
    dict_update(
        update_all(<< <<"start_index", Some(start_index)>>,
                      <<"root_dir", Some(tmp_cluster_dir \o Minus
                                         \o IntStr(start_index))>> >>,
                   [i \in 1..Len(as_list(self)) |->
                       start_args(as_list(self)[i])],
                   1),
        get_default_start_args)

\* The start_args that create_cluster builds (lines 102-106).
create_cluster_start_args(self, start_index, tmp_cluster_dir) ==
    update_all(dict_update(<< <<"start_index", Some(start_index)>>,
                              <<"root_dir", Some(tmp_cluster_dir \o Minus
                                                 \o IntStr(start_index))>> >>,
                           get_default_start_args),
               [i \in 1..Len(as_list(self)) |-> start_args(as_list(self)[i])],
               1)

\* The connect_args that create_cluster builds (lines 108-111).
create_cluster_connect_args(self, start_index, start) ==
    update_all(dict_update(<< <<"start_index", Some(start_index)>> >>,
                           get_default_connect_args(start)),
               [i \in 1..Len(as_list(self)) |->
                   connect_args(as_list(self)[i])],
               1)

\* requirement.start_args of api_tests, as __init__ of its class leaves it.
Api_start_args(self) ==
    CASE self.cls = "Edition" ->
            IF self.edition = "Community"
            THEN << <<"force_community", Some(TRUE)>>,
                    <<"run_serverless", Some(FALSE)>> >>
            ELSE IF self.edition = "Enterprise"
            THEN << <<"force_community", Some(FALSE)>>,
                    <<"run_serverless", Some(FALSE)>> >>
            ELSE << <<"force_community", Some(FALSE)>>,
                    <<"run_serverless", Some(TRUE)>> >>
      [] self.cls = "NumNodes" -> << <<"num_nodes", Some(self.num_nodes)>> >>
      [] OTHER -> <<>>

\* requirement.connect_args of api_tests, as __init__ of its class leaves
\* it.
Api_connect_args(self) ==
    CASE self.cls = "NumNodes" ->
            << <<"num_nodes", self.num_connected>> >>
            \o (IF Val(self.num_connected) > 1
                THEN << <<"do_rebalance", Some(TRUE)>>,
                        <<"do_wait_for_rebalance", Some(TRUE)>> >>
                ELSE << <<"do_rebalance", Some(FALSE)>> >>)
      [] self.cls = "MemSize" -> << <<"memsize", Some(self.memsize)>> >>
      [] OTHER -> <<>>

\* The start_args that create_cluster of api_tests builds (lines 50-54),
\* its get_default_start_args being the three flags of lines 33-43.
Api_create_cluster_start_args(self, start_index, tmp_cluster_dir) ==
    update_all(dict_update(<< <<"start_index", Some(start_index)>>,
                              <<"root_dir", Some(tmp_cluster_dir \o Minus
                                                 \o IntStr(start_index))>> >>,
                           << <<"dont_rename", Some(TRUE)>>,
                              <<"wait_for_start", Some(TRUE)>>,
                              <<"nooutput", Some(TRUE)>> >>),
               [i \in 1..Len(self.requirements) |->
                   Api_start_args(self.requirements[i])],
               1)

\* The connect_args that create_cluster of api_tests builds (lines 56-59),
\* its get_default_connect_args being empty.
Api_create_cluster_connect_args(self, start_index) ==
    update_all(<< <<"start_index", Some(start_index)>> >>,
               [i \in 1..Len(self.requirements) |->
                   Api_connect_args(self.requirements[i])],
               1)

\* --------------------------------------------------------- create_cluster

\* The check of a newly built cluster (lines 118-123), letting through a
\* cluster whose unmet requirements can all be met later.
create_cluster_lenient(self, built) ==
    LET res == is_satisfiable(self, built)
    IN  IF ~res[1]
        THEN [raised |-> "RuntimeError",
              unmet_str |-> Join([i \in 1..Len(res[2]) |->
                                     Requirement__str__(res[2][i])], CommaSpace)]
        ELSE [raised |-> "", cluster |-> built]

\* ClusterRequirements.create_cluster, from what build_cluster handed back:
\* the RuntimeError naming the requirements still unmet, or the cluster.
create_cluster(self, built) ==
    LET still_unmet == get_unmet_requirements(self, built)
    IN  IF Len(still_unmet) > 0
        THEN [raised |-> "RuntimeError",
              unmet_str |-> Join([i \in 1..Len(still_unmet) |->
                                     Requirement__str__(still_unmet[i])],
                                 CommaSpace)]
        ELSE [raised |-> "", cluster |-> built]

\* The (start_index, tmp_cluster_dir) that main passes by default.
\* scriptdir of run.py (line 26), the directory that holds run.py: where
\* the repository is checked out, or the root directory.
ScriptDirs == {Chars("/"), Chars("/root/workspace/src/cluster_tests")}

\* tmp_cluster_dir of run.py (line 49): os.path.join(scriptdir,
\* "test_cluster_data"), which puts a separator after scriptdir unless it
\* ends with one.
tmp_cluster_dir(scriptdir) ==
    IF scriptdir = <<>> \/ scriptdir[Len(scriptdir)] = Slash[1]
    THEN scriptdir \o Chars("test_cluster_data")
    ELSE scriptdir \o Slash \o Chars("test_cluster_data")

\* (start_index, tmp_cluster_dir) as main passes them on: start_index is 0
\* (line 123).
DefaultCreateArgs == {<<0, tmp_cluster_dir(d)>> : d \in ScriptDirs}

InitCreate ==
    /\ \/ r1 \in ReqSets /\ api = None
       \/ r1 = None /\ api \in ApiReqSets
    /\ cluster = None
    /\ a = None /\ b = None /\ api_a = None
    /\ r2 = None /\ api2 = None
    /\ testsets = <<>> /\ testsets_grouped = <<>>
    /\ args \in DefaultCreateArgs /\ NoRun
    /\ pc = "start" /\ ret = None

\* The clusters that build_cluster hands back when it does what it is
\* asked: start_args['num_nodes'] nodes, connect_args['num_nodes'] of them
\* connected, and the quota connect_args['memsize'] when it is given. What
\* it does with num_nodes None is not known: any number connected.
build_cluster_faithful(start, connect) ==
    {cl \in Clusters :
        /\ Len(cl.nodes) = Val(dict_get(start, "num_nodes"))
        /\ dict_get(connect, "num_nodes") # None
           => Len(cl.connected_nodes) = Val(dict_get(connect, "num_nodes"))
        /\ dict_has(connect, "memsize")
           => cl.memsize = Val(dict_get(connect, "memsize"))}

\* r1.create_cluster(auth, start_index, tmp_cluster_dir, kill_nodes), args
\* being (start_index, tmp_cluster_dir). build_cluster is a collaborator:
\* it hands back any cluster, or one that is as the arguments ask.
create_cluster_call(faithful) ==
    /\ pc = "start" /\ r1 # None /\ cluster = None
    /\ \E start \in {create_cluster_start_args(r1, args[1], args[2])} :
       \E connect \in {create_cluster_connect_args(r1, args[1], start)} :
          \E built \in IF faithful
                        THEN build_cluster_faithful(start, connect)
                        ELSE Clusters :
              /\ cluster' = built
              /\ calls' = Append(calls, <<"build_cluster", start, connect>>)
              /\ ret' = create_cluster(r1, built)
              /\ pc' = IF ret'.raised = "" THEN "create_cluster"
                       ELSE "create_cluster_raised"
    /\ UNCHANGED <<args, use_existing_server, tests, group_index, ran, returned, executed,
                   errors, not_ran,
                   a, b, api_a, r1, r2, api, api2, testsets, testsets_grouped>>

\* create_cluster, whatever build_cluster hands back.
CallCreateCluster == create_cluster_call(FALSE)

\* create_cluster, build_cluster doing what it is asked.
CallCreateClusterFaithful == create_cluster_call(TRUE)

\* api.create_cluster(auth, start_index, tmp_cluster_dir, kill_nodes) of
\* api_tests: what build_cluster hands back is returned as it is.
CallApiCreateCluster ==
    /\ pc = "start" /\ api # None /\ cluster = None
    /\ \E built \in Clusters :
          /\ cluster' = built
          /\ calls' = Append(calls,
                 <<"build_cluster",
                   Api_create_cluster_start_args(api, args[1], args[2]),
                   Api_create_cluster_connect_args(api, args[1])>>)
          /\ ret' = [raised |-> "", cluster |-> built]
          /\ pc' = "api_create_cluster"
    /\ UNCHANGED <<args, use_existing_server, tests, group_index, ran, returned,
                   executed, errors, not_ran,
                   a, b, api_a, r1, r2, api, api2, testsets, testsets_grouped>>

NextCreate == CallCreateCluster \/ CallApiCreateCluster

SpecCreate == InitCreate /\ [][NextCreate]_vars

\* ------------------------------------------------- the loop of main (run.py)

\* repr() of a str of printable ASCII: in single quotes, or in double quotes
\* when the text holds a single quote and no double quote; the backslash,
\* the newline and the enclosing quote are escaped.
StrRepr(s) ==
    LET has(c) == \E i \in 1..Len(s) : s[i] = c
        q == IF has(39) /\ ~has(34) THEN 34 ELSE 39
        esc(c) == IF c = 92 THEN <<92, 92>>
                  ELSE IF c = 10 THEN <<92, 110>>
                  ELSE IF c = q THEN <<92, c>>
                  ELSE <<c>>
    IN  <<q>> \o Join([i \in 1..Len(s) |-> esc(s[i])], <<>>) \o <<q>>

\* The reason recorded for a testset that is not run on the supplied cluster
\* (lines 222-224): the text and the repr of the list of the strs.
reason(unmet_requirements) ==
    Chars("Cluster provided does not satisfy test requirements:\n")
    \o LBracket
    \o Join([i \in 1..Len(unmet_requirements) |->
                StrRepr(Requirement__str__(unmet_requirements[i]))],
            CommaSpace)
    \o RBracket

\* The test of lines 218-221 that never holds: every group is run.
main_skips_never(existing, unmet_requirements) == FALSE

\* The test of lines 218-221: the group is passed over when a cluster was
\* supplied and it leaves requirements unmet.
main_skips(existing, unmet_requirements) ==
    existing /\ Len(unmet_requirements) > 0

\* run_testsets, from the i-th testset on; res[i] is what testlib.run_testset
\* returned for the i-th one: (executed, errors, not_ran).
RECURSIVE run_testsets_loop(_, _, _, _)
run_testsets_loop(tsl, res, i, acc) ==
    IF i > Len(tsl) THEN acc
    ELSE run_testsets_loop(tsl, res, i + 1,
             <<acc[1] + res[i][1],
               IF Len(res[i][2]) > 0 THEN dict_set(acc[2], tsl[i][1], res[i][2])
               ELSE acc[2],
               acc[3] \o res[i][3]>>)

\* run_testsets: (executed, errors, not_ran) of one group.
run_testsets(tsl, res) == run_testsets_loop(tsl, res, 1, <<0, <<>>, <<>>>>)

\* What testlib.run_testset may return for a testset: every test of
\* test_names was executed, and either all passed or the first one failed
\* and a test is reported as not run.
Outcomes(testset_name, test_names) ==
    {<<Len(test_names), <<>>, <<>>>>,
     <<Len(test_names), <<<<Chars(test_names[1]), Chars("failed")>>>>,
       <<<<testset_name, Chars("not ran")>>>>>>}

\* The configurations of the testsets that main is run with.
RunConfigs == {ConfigA, ConfigB, ConfigE}

\* The clusters main is given or gets: one node, connected.
RunClusters ==
    {[is_enterprise |-> e, is_serverless |-> FALSE, is_provisioned |-> FALSE,
      nodes |-> <<1>>, connected_nodes |-> <<NodeV4>>,
      memsize |-> MinMemSize, default_num_vbuckets |-> 16] :
        e \in BOOLEAN}

\* The loop of main over the discovered testsets (lines 177-188), from the
\* i-th of the list on: a testset is reported once for every configuration
\* that is not a ClusterRequirements; reason is the last such configuration,
\* and when it is not None the testset is removed from the list that is
\* being iterated, so that the testset after it is passed over. The loop
\* leaves not_ran and what is left of discovered_tests.
RECURSIVE not_correctly_specified(_, _, _)
not_correctly_specified(discovered_tests, i, not_ran_so_far) ==
    IF i > Len(discovered_tests)
    THEN [not_ran |-> not_ran_so_far, discovered_tests |-> discovered_tests]
    ELSE
      LET discovered_test == discovered_tests[i]
          wrong == SelectSeq(discovered_test[4],
                             LAMBDA c : DOMAIN c # {"requirements"})
          reason_is_not_None ==
              /\ wrong # <<>>
              /\ DOMAIN wrong[Len(wrong)] # {}
          first == CHOOSE j \in 1..i :
                       /\ discovered_tests[j] = discovered_test
                       /\ \A k \in 1..(j - 1) :
                              discovered_tests[k] # discovered_test
      IN  not_correctly_specified(
              IF reason_is_not_None
              THEN SubSeq(discovered_tests, 1, first - 1)
                   \o SubSeq(discovered_tests, first + 1,
                             Len(discovered_tests))
              ELSE discovered_tests,
              i + 1,
              not_ran_so_far
              \o [k \in 1..Len(wrong) |->
                     <<Chars(discovered_test[1]), wrong[k]>>])

\* The loop of find_tests (lines 331-349), from the i-th pair of test_names
\* on. An entry of results is (testset, testlist, configurations, shared):
\* shared tells that its list of tests is the very list of the discovered
\* testset, which line 345 then appends to, so that testlist is read from
\* discovered_dict when the loop is over. A class that was not discovered
\* and a test that the class does not have raise AssertionError; what was
\* appended to the lists of the discovered testsets before stays appended.
RECURSIVE find_tests_loop(_, _, _, _)
find_tests_loop(test_names, i, discovered_dict, results) ==
    IF i > Len(test_names)
    THEN [raised |-> "",
          value |-> [k \in 1..Len(results) |->
                        <<results[k][1], results[k][2][1],
                          IF results[k][2][4]
                          THEN dict_get(discovered_dict, results[k][1])[2]
                          ELSE results[k][2][2],
                          results[k][2][3]>>],
          discovered_dict |-> discovered_dict]
    ELSE
      LET class_name == test_names[i][1]
          test_name == test_names[i][2]
          found == dict_get(discovered_dict, class_name)
          testset == found[1]
          testlist == found[2]
          configurations == found[3]
          old == dict_get(results, class_name)
      IN  IF ~dict_has(discovered_dict, class_name)
          THEN [raised |-> "AssertionError", value |-> <<>>,
                discovered_dict |-> discovered_dict]
          ELSE IF test_name = "*"
          THEN find_tests_loop(test_names, i + 1, discovered_dict,
                   dict_set(results, class_name,
                            <<testset, testlist, configurations, TRUE>>))
          ELSE IF \A k \in 1..Len(testlist) : testlist[k] # test_name
          THEN [raised |-> "AssertionError", value |-> <<>>,
                discovered_dict |-> discovered_dict]
          ELSE IF ~dict_has(results, class_name)
          THEN find_tests_loop(test_names, i + 1, discovered_dict,
                   dict_set(results, class_name,
                            <<testset, <<test_name>>, configurations,
                              FALSE>>))
          ELSE IF old[4]
          THEN find_tests_loop(test_names, i + 1,
                   dict_set(discovered_dict, class_name,
                            <<testset, Append(testlist, test_name),
                              configurations>>),
                   dict_set(results, class_name,
                            <<old[1], old[2], configurations, TRUE>>))
          ELSE find_tests_loop(test_names, i + 1, discovered_dict,
                   dict_set(results, class_name,
                            <<old[1], Append(old[2], test_name),
                              configurations, FALSE>>))

\* find_tests (lines 328-351): the testsets named by --tests, in the order
\* they are first named, each with the tests that were asked for.
\* discovered_list is the list that was passed, as the call leaves it: of
\* the testsets of one name the last is the one discovered_dict holds, and
\* its list of tests is the one that was appended to.
find_tests(test_names, discovered_list) ==
    LET done ==
            find_tests_loop(test_names, 1,
                            dict_update(<<>>,
                                        [k \in 1..Len(discovered_list) |->
                                            <<discovered_list[k][1],
                                              <<discovered_list[k][2],
                                                discovered_list[k][3],
                                                discovered_list[k][4]>>>>]),
                            <<>>)
    IN  [raised |-> done.raised,
         value |-> done.value,
         discovered_list |->
             [k \in 1..Len(discovered_list) |->
                 IF \E j \in (k + 1)..Len(discovered_list) :
                        discovered_list[j][1] = discovered_list[k][1]
                 THEN discovered_list[k]
                 ELSE <<discovered_list[k][1], discovered_list[k][2],
                        dict_get(done.discovered_dict,
                                 discovered_list[k][1])[2],
                        discovered_list[k][4]>>]]

\* What lines 150-156 leave in tests: None without --tests; with it the
\* (class_name, test_name) pairs of the names given, '*' standing for every
\* test of a class; a name of two dots is dropped, which leaves no pair.
TestNames ==
    {None,
     Some(<<>>),
     Some(<< <<"SuiteA", "*">> >>),
     Some(<< <<"SuiteB", "a_test">>, <<"SuiteA", "*">> >>),
     Some(<< <<"SuiteA", "*">>, <<"SuiteA", "a_test">> >>),
     Some(<< <<"SuiteA", "a_test">>, <<"SuiteA", "a_test">> >>),
     Some(<< <<"SuiteA", "b_test">> >>)}

\* main is entered with the testsets that were discovered: they declare
\* configurations of RunConfigs, or in place of a ClusterRequirements some
\* other object, here [reason |-> "failed"] or None.
InitRun ==
    /\ TestsetLists(RunConfigs \cup {[reason |-> Chars("failed")], None})
    /\ testsets_grouped = <<>>
    /\ use_existing_server \in BOOLEAN
    /\ tests \in TestNames
    /\ cluster = None
    /\ group_index = 0 /\ ran = <<>> /\ returned = <<>>
    /\ executed = 0 /\ errors = <<>>
    /\ not_ran = <<>> /\ calls = <<>>
    /\ a = None /\ b = None /\ api_a = None
    /\ r1 = None /\ r2 = None /\ api = None /\ api2 = None
    /\ args = <<>>
    /\ pc = "start" /\ ret = None

\* main up to the loop (lines 176-212). The testsets that did not declare
\* ClusterRequirements are reported and removed from discovered_tests, and
\* the run then ends by error_exit (line 194). Otherwise the testsets to
\* run are the discovered ones, or with --tests the ones that find_tests
\* picks, which may append to the lists of tests of the discovered
\* testsets and may end the run with its AssertionError; they are grouped;
\* with --cluster get_existing_cluster hands back the cluster provided, or
\* ends the run by error_exit when the node cannot be reached, answers
\* with another status than 200 or lists no nodes (lines 393, 396, 402);
\* without --cluster the temporary cluster directories are removed.
\* testsets is discovered_tests; pc tells the exits before the loop from
\* the one after it.
MainGroup ==
    /\ pc = "start"
    /\ LET checked == not_correctly_specified(testsets, 1, <<>>)
           discovered_tests == checked.discovered_tests
           testsets_to_run ==
               IF tests = None
               THEN [raised |-> "", value |-> discovered_tests,
                     discovered_list |-> discovered_tests]
               ELSE find_tests(Val(tests), discovered_tests)
       IN  IF Len(checked.not_ran) > 0
           THEN /\ not_ran' = checked.not_ran
                /\ testsets' = discovered_tests
                /\ pc' = "error_exit_194"
                /\ UNCHANGED <<testsets_grouped, cluster, calls>>
           ELSE IF testsets_to_run.raised # ""
           THEN /\ testsets' = testsets_to_run.discovered_list
                /\ pc' = testsets_to_run.raised
                /\ UNCHANGED <<testsets_grouped, not_ran, cluster, calls>>
           ELSE /\ testsets' = testsets_to_run.discovered_list
                /\ testsets_grouped' = group_testsets(testsets_to_run.value)
                /\ UNCHANGED not_ran
                /\ IF use_existing_server
                   THEN /\ UNCHANGED calls
                        /\ \/ cluster' \in RunClusters /\ pc' = "loop"
                           \/ UNCHANGED cluster
                              /\ pc' = "error_exit_get_existing_cluster"
                   ELSE /\ calls' = Append(calls,
                                           "remove_temp_cluster_directories")
                        /\ UNCHANGED cluster
                        /\ pc' = "loop"
    /\ UNCHANGED <<args, use_existing_server, tests, group_index, ran,
                   returned, executed, errors, a, b, api_a, r1, r2, api,
                   api2, ret>>

\* One turn of the loop of main (lines 216-243), for the next group.
MainLoop ==
    /\ pc = "loop" /\ group_index < Len(testsets_grouped)
    /\ LET configuration == testsets_grouped[group_index + 1][1]
           tsl == testsets_grouped[group_index + 1][2]
           unmet_requirements ==
               IF use_existing_server
               THEN get_unmet_requirements(configuration, cluster)
               ELSE <<>>
       IN  IF main_skips(use_existing_server, unmet_requirements)
           THEN /\ not_ran' = not_ran \o
                       [i \in 1..Len(tsl) |->
                           <<tsl[i][1], reason(unmet_requirements)>>]
                /\ UNCHANGED <<cluster, ran, returned, executed, errors,
                               calls>>
           ELSE /\ IF use_existing_server
                   THEN UNCHANGED <<cluster, calls>>
                   ELSE /\ cluster' \in RunClusters
                        /\ calls' = Append(calls, "get_appropriate_cluster")
                /\ \E res \in {f \in [1..Len(tsl) ->
                                         UNION {Outcomes(tsl[i][1], tsl[i][3]) :
                                                   i \in 1..Len(tsl)}] :
                                  \A i \in 1..Len(tsl) :
                                      f[i] \in Outcomes(tsl[i][1],
                                                        tsl[i][3])} :
                      LET done == run_testsets(tsl, res)
                      IN  /\ ran' = ran \o [i \in 1..Len(tsl) |-> tsl[i][1]]
                          /\ returned' = returned \o res
                          /\ executed' = executed + done[1]
                          /\ errors' = dict_update(errors, done[2])
                          /\ not_ran' = not_ran \o done[3]
    /\ group_index' = group_index + 1
    /\ UNCHANGED <<args, use_existing_server, tests, a, b, api_a, r1, r2, api, api2,
                   testsets, testsets_grouped, pc, ret>>

\* main after the loop (lines 286-294): the error exit when a testset
\* reported errors; otherwise, unless the temporary directories are kept or
\* core files were found, the nodes are torn down and the directories
\* removed. cluster is still None when no group was gone through without
\* --cluster, and cluster.teardown() then raises AttributeError.
MainFinish ==
    /\ pc = "loop" /\ group_index = Len(testsets_grouped)
    /\ IF Len(errors) > 0
       THEN /\ pc' = "error_exit"
            /\ UNCHANGED calls
       ELSE \E keep \in BOOLEAN :
               IF keep
               THEN /\ pc' = "finished"
                    /\ UNCHANGED calls
               ELSE IF cluster = None
               THEN /\ pc' = "AttributeError"
                    /\ UNCHANGED calls
               ELSE /\ pc' = "finished"
                    /\ calls' = calls \o <<"teardown",
                                           "remove_temp_cluster_directories">>
    /\ UNCHANGED <<args, use_existing_server, tests, group_index, ran,
                   returned, executed, errors, not_ran, a, b, api_a, r1, r2,
                   api, api2, cluster, testsets, testsets_grouped, ret>>

NextRun == MainGroup \/ MainLoop \/ MainFinish

SpecRun == InitRun /\ [][NextRun]_vars

\* ------------------------------------------------------------- make_met

\* Requirement.make_met, inherited by every class that does not override
\* it: the RuntimeError, raised before the cluster is touched.
Requirement_make_met(self) ==
    [raised |-> "RuntimeError",
     message |-> Chars("Cannot change Requirement ")
                 \o Requirement__str__(self)
                 \o Chars(" after cluster created")]

\* MemSize.make_met that always asks for the smallest quota.
MemSize_make_met_smallest(self, cl) == [cl EXCEPT !.memsize = MinMemSize]

\* MemSize.make_met once post_succ has returned (line 377).
MemSize_make_met(self, cl) ==
    [cl EXCEPT !.memsize = Val(self.memsize_to_use)]

\* What cluster.toggle_n2n_encryption may leave behind: the method is a
\* collaborator, so every setting of the nodes' nodeEncryption.
N2nEncryption_make_met(self, cl) ==
    {[cl EXCEPT !.connected_nodes =
          [i \in 1..Len(cl.connected_nodes) |->
              [cl.connected_nodes[i] EXCEPT !.nodeEncryption = enc[i]]]] :
        enc \in [1..Len(cl.connected_nodes) -> BOOLEAN]}

InitMake ==
    /\ \/ a \in Constructible /\ api_a = None
       \/ a = None /\ api_a \in ApiRequirements
    /\ cluster \in Clusters
    /\ b = None
    /\ r1 = None /\ r2 = None /\ api = None /\ api2 = None
    /\ testsets = <<>> /\ testsets_grouped = <<>>
    /\ args = <<>> /\ NoRun
    /\ pc = "start" /\ ret = None

\* a.can_be_met()
CallCanBeMet ==
    /\ pc = "start" /\ a # None
    /\ pc' = "can_be_met"
    /\ ret' = can_be_met(a)
    /\ UNCHANGED <<args, run_vars, a, b, api_a, r1, r2, api, api2, cluster,
                   testsets, testsets_grouped>>

\* a.make_met(cluster), as dispatched on the class of a. testlib.post_succ
\* is a collaborator: it returns, or it raises and line 377 is not reached.
CallMakeMet ==
    /\ pc = "start" /\ a # None /\ cluster # None
    /\ IF a.cls = "MemSize"
       THEN /\ calls' = Append(calls, <<"post_succ", "/pools/default",
                                        Val(a.memsize_to_use)>>)
            /\ \/ /\ cluster' = MemSize_make_met(a, cluster)
                  /\ pc' = "make_met"
                  /\ ret' = None
               \/ /\ pc' = "make_met_failed"
                  /\ ret' = [raised |-> "post_succ"]
                  /\ UNCHANGED cluster
       ELSE IF a.cls = "N2nEncryption"
       THEN /\ calls' = Append(calls, <<"toggle_n2n_encryption",
                                        a.encryption>>)
            /\ cluster' \in N2nEncryption_make_met(a, cluster)
            /\ pc' = "make_met"
            /\ ret' = None
       ELSE /\ pc' = "make_met_raised"
            /\ ret' = Requirement_make_met(a)
            /\ UNCHANGED <<cluster, calls>>
    /\ UNCHANGED <<args, use_existing_server, tests, group_index, ran, returned, executed,
                   errors, not_ran, a, b, api_a, r1, r2, api, api2,
                   testsets, testsets_grouped>>

\* api_a.make_met(cluster) of api_tests: MemSize posts the quota and sets
\* it (lines 204-207), post_succ returning or raising; every other class
\* raises the RuntimeError of Requirement.make_met (lines 124-126).
CallApiMakeMet ==
    /\ pc = "start" /\ api_a # None /\ cluster # None
    /\ IF api_a.cls = "MemSize"
       THEN /\ calls' = Append(calls, <<"post_succ", "/pools/default",
                                        api_a.memsize>>)
            /\ \/ /\ cluster' = [cluster EXCEPT !.memsize = api_a.memsize]
                  /\ pc' = "api_make_met"
                  /\ ret' = None
               \/ /\ pc' = "api_make_met_failed"
                  /\ ret' = [raised |-> "post_succ"]
                  /\ UNCHANGED cluster
       ELSE /\ pc' = "api_make_met_raised"
            /\ ret' = [raised |-> "RuntimeError",
                       message |-> Chars("Cannot change Requirement ")
                                   \o Api_Requirement__str__(api_a)
                                   \o Chars(" after cluster created")]
            /\ UNCHANGED <<cluster, calls>>
    /\ UNCHANGED <<args, use_existing_server, tests, group_index, ran, returned,
                   executed, errors, not_ran, a, b, api_a, r1, r2, api, api2,
                   testsets, testsets_grouped>>

NextMake == CallCanBeMet \/ CallMakeMet \/ CallApiMakeMet

SpecMake == InitMake /\ [][NextMake]_vars

\* ------------------------------------------- every operation on a cluster

\* A requirement set with another one and a cluster, or a requirement with
\* a cluster, or a requirement set and no cluster yet.
InitFrame ==
    /\ \/ /\ r1 \in CarrySets /\ r2 \in RunConfigs
          /\ cluster \in Clusters /\ a = None
       \/ /\ r1 = None /\ r2 = None
          /\ cluster \in Clusters /\ a \in Requirements
       \/ /\ r1 \in CarrySets /\ r2 = None
          /\ cluster = None /\ a = None
    /\ b = None /\ api_a = None /\ api = None /\ api2 = None
    /\ testsets = <<>> /\ testsets_grouped = <<>>
    /\ args \in DefaultCreateArgs /\ NoRun
    /\ pc = "start" /\ ret = None

\* One call of a method of ClusterRequirements or of Requirement.
NextFrame ==
    \/ /\ r1 # None /\ r2 # None /\ cluster # None
       /\ \/ CallSatisfiedBy
          \/ CallIntersect
          \/ CallIsSatisfiable
          \/ CallGetUnmetRequirements
    \/ /\ a # None
       /\ \/ CallIsMet
          \/ CallMakeMet
    \/ CallCreateCluster

SpecFrame == InitFrame /\ [][NextFrame]_vars

\* ------------------------------------------- the arguments of build_cluster

\* Requirement sets for create_cluster: every NumNodes and MemSize that can
\* be constructed, alone or together; and every edition with some node
\* counts and quotas, without and with the five remaining kinds.
ProvisionArgs ==
    {[NoArgs EXCEPT !.num_nodes = n[1], !.min_num_nodes = n[2],
                    !.num_connected = n[3], !.min_num_connected = n[4],
                    !.memsize = m[1], !.min_memsize = m[2]] :
        n \in {<<None, None, None, None>>} \cup NumNodesArgs,
        m \in {<<None, None>>} \cup MemSizeArgs}
    \cup {[p EXCEPT !.edition = e,
                    !.num_nodes = n[1], !.min_num_nodes = n[2],
                    !.memsize = m] :
             p \in {NoArgs,
                    [NoArgs EXCEPT !.afamily = Some("ipv6"),
                                   !.services = Some(<<"kv">>),
                                   !.master_password_state =
                                       Some("user_configured"),
                                   !.num_vbuckets = Some(MaxNumVbuckets),
                                   !.encryption = Some(TRUE)]},
             e \in {None} \cup {Some(x) : x \in editions},
             n \in {<<None, None>>, <<Some(MaxNodes), None>>,
                    <<None, Some(1)>>},
             m \in {None, Some(2 * MinMemSize)}}

ProvisionSets == {ClusterRequirements(p) : p \in ProvisionArgs}

InitProvision ==
    /\ r1 \in ProvisionSets
    /\ args \in {<<i, tmp_cluster_dir(d)>> : i \in {0, 1}, d \in ScriptDirs}
    /\ cluster = None
    /\ a = None /\ b = None /\ api_a = None
    /\ r2 = None /\ api = None /\ api2 = None
    /\ testsets = <<>> /\ testsets_grouped = <<>>
    /\ NoRun
    /\ pc = "start" /\ ret = None

NextProvision == CallCreateClusterFaithful

SpecProvision == InitProvision /\ [][NextProvision]_vars

\* ---------------------------------- intersect over provisioned sets

\* r1.intersect(r2) for every two of the requirement sets of ProvisionSets.
InitSound ==
    /\ r1 \in ProvisionSets
    /\ r2 \in ProvisionSets
    /\ a = None /\ b = None /\ api = None /\ api2 = None /\ cluster = None
    /\ testsets = <<>> /\ testsets_grouped = <<>>
    /\ api_a = None
    /\ args = <<>> /\ NoRun
    /\ pc = "start" /\ ret = None

NextSound == CallIntersect

SpecSound == InitSound /\ [][NextSound]_vars

\* ------------------------------------------------------------- claims

\* C1 (as claimed): r.satisfied_by(r) is true for every requirement set r.
C1_SatisfiedByReflexive ==
    (pc = "satisfied_by" /\ r1 = r2) => ret = TRUE

\* Whether requirement set o holds, for kind k, a requirement whose
\* canonical string is that of s's requirement of kind k.
HasCounterpart(s, o, k) ==
    /\ o.requirements[k] # None
    /\ Requirement__str__(Val(s.requirements[k]))
         = Requirement__str__(Val(o.requirements[k]))

\* C2 (as claimed): s.satisfied_by(o) is true iff every requirement of s has
\* a requirement of the same kind and the same canonical string in o.
C2_SatisfiedByIffCounterparts ==
    pc = "satisfied_by" =>
        (ret <=> \A i \in 1..Len(Kinds) :
                     r1.requirements[Kinds[i]] # None
                         => HasCounterpart(r1, r2, Kinds[i]))

\* The numeric intersection rule for two limits, each <<min, exact>> with
\* exactly one of the two set: whether they intersect ...
LimitsMeet(l1, l2) ==
    CASE l1[2] # None /\ l2[2] # None -> Val(l1[2]) = Val(l2[2])
      [] l1[2] # None /\ l2[2] = None -> Val(l1[2]) >= Val(l2[1])
      [] l1[2] = None /\ l2[2] # None -> Val(l2[2]) >= Val(l1[1])
      [] OTHER -> TRUE

\* ... and the <<min, exact>> they intersect to.
LimitsMerged(l1, l2) ==
    CASE l1[2] # None -> <<None, l1[2]>>
      [] l2[2] # None -> <<None, l2[2]>>
      [] OTHER -> <<IF Val(l1[1]) >= Val(l2[1]) THEN l1[1] ELSE l2[1], None>>

Total(x) == <<x.min_num_nodes, x.num_nodes>>
Connected(x) == <<x.min_num_connected, x.num_connected>>
Quota(x) == <<x.min_memsize, x.memsize>>

\* C7: for two requirements of one kind, a.intersect(b) and b.intersect(a)
\* both return (neither raises), with the same success flag and, on success,
\* requirements that compare equal.
C7_IntersectCommutative ==
    /\ (a # None /\ b # None) => pc # "raised"
    /\ pc = "req_intersect" =>
          /\ ret[1][1] = ret[2][1]
          /\ ret[1][1] => Requirement__eq__(Val(ret[1][2]), Val(ret[2][2]))
          /\ ~ret[1][1] => ret[1][2] = None /\ ret[2][2] = None

C7_Witness ==
    /\ pc = "req_intersect"
    /\ a.cls = "NumNodes" /\ a.num_nodes # None /\ b.min_num_nodes # None
    /\ a.num_connected # None /\ b.min_num_connected # None
    /\ ret[1][1] /\ ret[2][1]

\* C8: MemSize.intersect and each dimension of NumNodes.intersect follow the
\* numeric rule: equal exacts give that exact, different exacts fail, an
\* exact against a min succeeds with the exact iff exact >= min, two mins
\* give the larger min; MemSize(min_memsize=512) and MemSize(memsize=256)
\* do not intersect.
C8_NumericRule ==
    pc = "req_intersect" =>
        /\ a.cls = "MemSize" =>
              /\ ret[1][1] = LimitsMeet(Quota(a), Quota(b))
              /\ ret[1][1] => Quota(Val(ret[1][2])) = LimitsMerged(Quota(a), Quota(b))
        /\ a.cls = "NumNodes" =>
              /\ ret[1][1] = (/\ LimitsMeet(Total(a), Total(b))
                              /\ LimitsMeet(Connected(a), Connected(b)))
              /\ ret[1][1] =>
                    /\ Total(Val(ret[1][2])) = LimitsMerged(Total(a), Total(b))
                    /\ Connected(Val(ret[1][2]))
                         = LimitsMerged(Connected(a), Connected(b))
        /\ (/\ a = MemSize(None, Some(2 * MinMemSize))
            /\ b = MemSize(Some(MinMemSize), None)) => ~ret[1][1]

C8_Witness ==
    /\ pc = "req_intersect"
    /\ a = MemSize(None, Some(2 * MinMemSize))
    /\ b = MemSize(Some(MinMemSize), None)
    /\ ret[1] = <<FALSE, None>>

\* What the pairwise intersection of two present, unequal requirements of one
\* kind is claimed to be: NumNodes and MemSize use their own intersect, every
\* other kind never intersects.
KindIntersect(k, x, y) ==
    CASE k = "num_nodes" -> NumNodes_intersect(x, y)
      [] k = "memsize" -> MemSize_intersect(x, y)
      [] OTHER -> <<FALSE, None>>

\* Whether kind k of s and o merges, and to what.
SameEntry(x, y) ==
    \/ x = None /\ y = None
    \/ x # None /\ y # None /\ Requirement__str__(Val(x)) = Requirement__str__(Val(y))

KindMeets(s, o, k) ==
    LET x == s.requirements[k]
        y == o.requirements[k]
    IN  \/ SameEntry(x, y) \/ x = None \/ y = None
        \/ KindIntersect(k, Val(x), Val(y))[1]

KindMerged(s, o, k) ==
    LET x == s.requirements[k]
        y == o.requirements[k]
    IN  IF SameEntry(x, y) THEN x
        ELSE IF x = None THEN y
        ELSE IF y = None THEN x
        ELSE KindIntersect(k, Val(x), Val(y))[2]

\* C9: ClusterRequirements.intersect succeeds iff every kind merges; every
\* kind before the first that does not merge holds the merged requirement
\* (the equal one, the only one given, or the result of the requirement's
\* intersect) and no later kind is set; two unequal requirements of a kind
\* that does not override intersect make it fail.
C9_IntersectPerKind ==
    pc = "intersect" =>
        /\ ret[1] = (\A i \in 1..Len(Kinds) : KindMeets(r1, r2, Kinds[i]))
        /\ \A i \in 1..Len(Kinds) :
              ret[2].requirements[Kinds[i]] =
                  IF \A j \in 1..i : KindMeets(r1, r2, Kinds[j])
                  THEN KindMerged(r1, r2, Kinds[i])
                  ELSE None
        /\ \A i \in 1..Len(Kinds) :
              LET x == r1.requirements[Kinds[i]]
                  y == r2.requirements[Kinds[i]]
              IN  (/\ Kinds[i] \notin {"num_nodes", "memsize"}
                   /\ x # None /\ y # None /\ ~SameEntry(x, y)) => ~ret[1]

C9_Witness ==
    /\ pc = "intersect"
    /\ ret[1]
    /\ r1.requirements.edition = None /\ r2.requirements.edition # None
    /\ r1.requirements.num_nodes # None /\ r2.requirements.num_nodes # None
    /\ ~SameEntry(r1.requirements.num_nodes, r2.requirements.num_nodes)
    /\ r1.requirements.memsize # None
    /\ r1.requirements.memsize = r2.requirements.memsize
    /\ ret[2].requirements.edition = r2.requirements.edition


\* The work items of the input, in the order group_testsets meets them.
RECURSIVE Flatten(_)
Flatten(tss) ==
    IF tss = <<>> THEN <<>>
    ELSE [j \in 1..Len(Head(tss)[4]) |-> WorkItem(Head(tss), Head(tss)[4][j])]
         \o Flatten(Tail(tss))

\* How often x occurs in the list l.
Count(l, x) == Cardinality({i \in 1..Len(l) : l[i] = x})

\* How often work item w occurs in the work lists of all groups together.
RECURSIVE CountInGroups(_, _)
CountInGroups(groups, w) ==
    IF groups = <<>> THEN 0
    ELSE Count(Head(groups)[2], w) + CountInGroups(Tail(groups), w)

\* The work item of the only testset of the input that declares exactly the
\* configuration c.
ItemOf(c) ==
    LET i == CHOOSE i \in 1..Len(testsets) : testsets[i][4] = <<c>>
    IN  WorkItem(testsets[i], c)

\* Three testsets declaring ConfigA, ConfigB and ConfigC, in any order.
IsScenario ==
    /\ Len(testsets) = 3
    /\ \A c \in {ConfigA, ConfigB, ConfigC} :
           \E i \in 1..3 : testsets[i][4] = <<c>>

\* C3 (as claimed): in the scenario A = {Enterprise, 1 node}, B = A with
\* memsize 512, C = {Community, 1 node}, the items of A and B share a group
\* and the item of C is in another one, whatever the order of the testsets.
C3_ScenarioGroups ==
    (pc = "group_testsets" /\ IsScenario) =>
        \E i \in 1..Len(testsets_grouped) :
            /\ Count(testsets_grouped[i][2], ItemOf(ConfigA)) > 0
            /\ Count(testsets_grouped[i][2], ItemOf(ConfigB)) > 0
            /\ Count(testsets_grouped[i][2], ItemOf(ConfigC)) = 0

\* C4 (as claimed): every work item of the input is in exactly one group,
\* once (as often as the input declares it).
C4_GroupsPartition ==
    pc = "group_testsets" =>
        LET flat == Flatten(testsets)
        IN  \A i \in 1..Len(flat) :
                CountInGroups(testsets_grouped, flat[i]) = Count(flat, flat[i])

\* The requirements of a set that cannot be met on an existing cluster.
Immutables(r) ==
    [k \in DOMAIN r.requirements |->
        IF r.requirements[k] # None /\ can_be_met(Val(r.requirements[k]))
        THEN None ELSE r.requirements[k]]

\* C5 (as claimed): groups whose representatives have the same immutable
\* requirements are contiguous in the sorted list.
C5_CompatibleAdjacent ==
    pc = "group_testsets" =>
        \A i, j, k \in 1..Len(testsets_grouped) :
            (/\ i < j /\ j < k
             /\ Immutables(testsets_grouped[i][1])
                  = Immutables(testsets_grouped[k][1]))
            => Immutables(testsets_grouped[j][1])
                 = Immutables(testsets_grouped[i][1])

\* C6: the returned groups are in non-decreasing order of the canonical
\* string of their representative, and are the groups the fold built, each
\* with its work list as built.
C6_SortedByString ==
    pc = "group_testsets" =>
        LET built == group_by_requirements(testsets, <<>>)
        IN  /\ \A i, j \in 1..Len(testsets_grouped) :
                   i < j => ~StrLess(
                       ClusterRequirements__str__(testsets_grouped[j][1]),
                       ClusterRequirements__str__(testsets_grouped[i][1]))
            /\ Len(testsets_grouped) = Len(built)
            /\ \A i \in 1..Len(built) :
                   Count(testsets_grouped, built[i]) = Count(built, built[i])

C6_Witness ==
    /\ pc = "group_testsets"
    /\ Len(testsets_grouped) = 2
    /\ testsets_grouped # group_by_requirements(testsets, <<>>)
    /\ \E i \in 1..2 : Len(testsets_grouped[i][2]) > 1


\* C10: is_satisfiable returns the present requirements that are not met, in
\* order (the list get_unmet_requirements returns), and satisfiable is true
\* iff each of them can_be_met; so does is_satisfiable of api_tests.
C10_IsSatisfiable ==
    /\ pc = "is_satisfiable" =>
          /\ ret[2] = SelectSeq(as_list(r1), LAMBDA x : ~is_met(x, cluster))
          /\ ret[2] = get_unmet_requirements(r1, cluster)
          /\ ret[1] = (\A i \in 1..Len(ret[2]) : can_be_met(ret[2][i]))
    /\ pc = "get_unmet_requirements" =>
          ret = SelectSeq(as_list(r1), LAMBDA x : ~is_met(x, cluster))
    /\ pc = "api_is_satisfiable" =>
          /\ ret[2] = SelectSeq(api.requirements,
                                LAMBDA x : ~Api_is_met(x, cluster))
          /\ ret[1] = (\A i \in 1..Len(ret[2]) : Api_can_be_met(ret[2][i]))

C10_Witness ==
    /\ pc = "is_satisfiable"
    /\ ret[1] = TRUE
    /\ Len(ret[2]) = 2
    /\ Len(as_list(r1)) > 2


\* C11: when r1.satisfied_by(r2) returned True and every present requirement
\* of r2 is met on the cluster, r1.is_satisfiable(cluster) returns (True, []);
\* so it is for the classes of api_tests.
C11_SatisfactionCarries ==
    /\ (pc = "carried" /\ get_unmet_requirements(r2, cluster) = <<>>)
           => ret = <<TRUE, <<>>>>
    /\ (pc = "api_carried"
        /\ \A i \in 1..Len(api2.requirements) :
               Api_is_met(api2.requirements[i], cluster))
           => ret = <<TRUE, <<>>>>

C11_Witness ==
    /\ pc = "api_carried"
    /\ \A i \in 1..Len(api2.requirements) :
           Api_is_met(api2.requirements[i], cluster)
    /\ Len(cluster.nodes) > Len(cluster.connected_nodes)
    /\ ret = <<TRUE, <<>>>>


\* C12 (as claimed): two requirements of one kind are equal iff their
\* renderings of the non-None keyword arguments are identical, and two
\* requirements of different kinds are never equal.
C12_RequirementEquality ==
    pc = "eq" =>
        /\ a.cls = b.cls =>
              ret = (Requirement__str__(a) = Requirement__str__(b))
        /\ a.cls # b.cls => ret = FALSE


\* The requirements of the list l in the claimed canonical order: x comes
\* after exactly those y that cannot be met later while x can, or that are
\* alike in that and have the smaller kind (class) name. mutable[i] and
\* name[i] are can_be_met() and the class name of l[i].
InCanonicalOrder(l, mutable, name) ==
    LET Before(j, i) ==
            \/ ~mutable[j] /\ mutable[i]
            \/ mutable[j] = mutable[i] /\ StrLess(Chars(name[j]), Chars(name[i]))
        Rank(i) == Cardinality({j \in 1..Len(l) : Before(j, i)})
    IN  [k \in 1..Len(l) |-> l[CHOOSE i \in 1..Len(l) : Rank(i) = k - 1]]

\* C13: str of a requirement set is the comma-joined strings of its present
\* requirements, each once, those with can_be_met() false first, each of the
\* two groups in the order of the kind names; in cluster_tests and api_tests.
C13_CanonicalString ==
    /\ pc = "str" =>
          LET l == as_list(r1)
              q == InCanonicalOrder(l, [i \in 1..Len(l) |-> can_be_met(l[i])],
                                    [i \in 1..Len(l) |-> l[i].cls])
          IN  ret = Join([i \in 1..Len(q) |-> Requirement__str__(q[i])], Comma)
    /\ pc = "api_str" =>
          LET l == api.requirements
              q == InCanonicalOrder(l, [i \in 1..Len(l) |-> Api_can_be_met(l[i])],
                                    [i \in 1..Len(l) |-> l[i].cls])
          IN  ret = Join([i \in 1..Len(q) |-> Api_Requirement__str__(q[i])],
                         Comma)

C13_Witness ==
    /\ pc = "str"
    /\ Len(as_list(r1)) = 8
    /\ r1.requirements.memsize # None
    /\ Val(r1.requirements.memsize).min_memsize # None
    /\ ret # <<>>


\* A count against an <<exact, min>> pair of which one is set.
CountOk(n, exact, min) ==
    IF exact # None THEN n = Val(exact) ELSE n >= Val(min)

\* The rule of C14 for the NumNodes of cluster_tests, from the parameters it
\* was constructed with: kwargs[3] and kwargs[4] are num_connected and
\* min_num_connected as given.
NumNodesRule(x, cl) ==
    /\ CountOk(Len(cl.nodes), x.num_nodes, x.min_num_nodes)
    /\ IF x.kwargs[3][2] = None /\ x.kwargs[4][2] = None
       THEN CountOk(Len(cl.connected_nodes), x.num_nodes, x.min_num_nodes)
       ELSE CountOk(Len(cl.connected_nodes), x.num_connected,
                    x.min_num_connected)

\* The cluster_tests half of C14.
C14_ClusterTestsNumNodes ==
    (pc = "is_met" /\ a.cls = "NumNodes") => ret = NumNodesRule(a, cluster)

\* C14 (as claimed): NumNodes.is_met is true iff the number of nodes equals
\* num_nodes (exact) or is >= min_num_nodes, and the number of connected
\* nodes equals num_connected or is >= min_num_connected, the total-node
\* constraint standing in when no connected parameter was given; for the
\* NumNodes of cluster_tests and of api_tests.
C14_NumNodesIsMet ==
    /\ C14_ClusterTestsNumNodes
    /\ (pc = "api_is_met" /\ api_a.cls = "NumNodes") =>
          ret = (/\ Len(cluster.nodes) = api_a.num_nodes
                 /\ Len(cluster.connected_nodes) = Val(api_a.num_connected))


\* Of an <<exact, min>> pair of arguments, the one that is given (None when
\* neither is).
Bound(exact, min) == IF exact # None THEN exact ELSE min

\* Some given count among the arguments t is below 1.
BelowOne(t) == \E i \in 1..Len(t) : t[i] # None /\ Val(t[i]) < 1

\* The cluster_tests half of C15.
C15_ClusterTestsValidation ==
    (args # None /\ args[1] = "NumNodes" /\ pc # "start") =>
        LET t == args[2]
            total == Bound(t[1], t[2])
            connected == Bound(t[3], t[4])
            invalid == \/ (t[1] = None) = (t[2] = None)
                       \/ t[3] # None /\ t[4] # None
                       \/ BelowOne(t)
                       \/ /\ connected # None /\ total # None
                          /\ Val(connected) > Val(total)
        IN  /\ (pc = "raised") = invalid
            /\ pc = "constructed" =>
                  Val(Bound(a.num_connected, a.min_num_connected))
                      <= Val(Bound(a.num_nodes, a.min_num_nodes))

\* C15 (as claimed): constructing NumNodes fails exactly when both or none
\* of num_nodes / min_num_nodes are given, both connected forms are given,
\* a given count is below 1, or the connected count exceeds the total-node
\* count; so every NumNodes has its connected bound <= its total bound. For
\* the NumNodes of cluster_tests and of api_tests.
C15_NumNodesValidation ==
    /\ C15_ClusterTestsValidation
    /\ (args # None /\ args[1] = "api_tests.NumNodes" /\ pc # "start") =>
          LET t == args[2]
              invalid == \/ t[1] < 1
                         \/ t[2] # None /\ Val(t[2]) < 1
                         \/ t[2] # None /\ Val(t[2]) > t[1]
          IN  /\ (pc = "raised") = invalid
              /\ pc = "constructed" =>
                    Val(api_a.num_connected) <= api_a.num_nodes


\* C16: a constructed MemSize has exactly one of memsize / min_memsize set,
\* with a value >= 256; a constructed NumNodes has exactly one of num_nodes /
\* min_num_nodes set; a call with both set, with both absent or with a
\* memory value below 256 raises instead of yielding an object.
C16_ExactlyOne ==
    (args # None /\ pc # "start") =>
        LET t == args[2]
        IN  /\ (args[1] = "MemSize" /\ pc = "constructed") =>
                  /\ (a.memsize = None) # (a.min_memsize = None)
                  /\ Val(Bound(a.memsize, a.min_memsize)) >= 256
            /\ (args[1] = "NumNodes" /\ pc = "constructed") =>
                  (a.num_nodes = None) # (a.min_num_nodes = None)
            /\ (/\ args[1] = "MemSize"
                /\ \/ (t[1] = None) = (t[2] = None)
                   \/ \E i \in 1..2 : t[i] # None /\ Val(t[i]) < 256) =>
                  pc = "raised"
            /\ (args[1] = "NumNodes" /\ (t[1] = None) = (t[2] = None)) =>
                  pc = "raised"

C16_Witness ==
    /\ pc = "constructed"
    /\ args = <<"MemSize", <<None, Some(2 * MinMemSize)>>>>
    /\ a.min_memsize = Some(2 * MinMemSize) /\ a.memsize = None


\* The truth table of C17: the <<edition, is_enterprise, is_serverless,
\* is_provisioned>> for which the edition is met.
EditionTable ==
    {<<"Community", FALSE, FALSE, FALSE>>, <<"Community", FALSE, FALSE, TRUE>>,
     <<"Enterprise", TRUE, FALSE, FALSE>>, <<"Enterprise", TRUE, FALSE, TRUE>>,
     <<"Serverless", TRUE, TRUE, FALSE>>, <<"Serverless", TRUE, TRUE, TRUE>>,
     <<"Provisioned", TRUE, FALSE, TRUE>>, <<"Provisioned", TRUE, TRUE, TRUE>>}

\* C17: Edition.is_met is true exactly for the rows of the truth table
\* (Community: neither enterprise nor serverless; Enterprise: enterprise and
\* not serverless; Serverless: enterprise and serverless; Provisioned:
\* enterprise and provisioned), in cluster_tests and api_tests; Community is
\* never met on an enterprise cluster.
C17_EditionTruthTable ==
    /\ (pc = "is_met" /\ a.cls = "Edition") =>
          /\ ret = (<<Val(a.edition), cluster.is_enterprise,
                      cluster.is_serverless, cluster.is_provisioned>>
                        \in EditionTable)
          /\ (Val(a.edition) = "Community" /\ cluster.is_enterprise)
                => ret = FALSE
    /\ (pc = "api_is_met" /\ api_a.cls = "Edition") =>
          /\ ret = (<<api_a.edition, cluster.is_enterprise,
                      cluster.is_serverless, cluster.is_provisioned>>
                        \in EditionTable)
          /\ (api_a.edition = "Community" /\ cluster.is_enterprise)
                => ret = FALSE

C17_Witness ==
    /\ pc = "is_met" /\ a.cls = "Edition"
    /\ Val(a.edition) = "Community"
    /\ cluster.is_enterprise /\ ~cluster.is_serverless
    /\ ret = FALSE


\* C18: create_cluster returns the cluster build_cluster handed back iff
\* every present requirement is met on it; otherwise it raises an error
\* naming the unmet requirements and returns no cluster, also when the only
\* unmet requirement is one that can be met later.
C18_PostProvisioningCheck ==
    LET l == as_list(r1)
        unmet == SelectSeq(l, LAMBDA x : ~is_met(x, cluster))
    IN  /\ pc = "create_cluster" =>
              /\ unmet = <<>>
              /\ ret.raised = "" /\ ret.cluster = cluster
        /\ pc = "create_cluster_raised" =>
              /\ unmet # <<>>
              /\ ret.raised = "RuntimeError"
              /\ "cluster" \notin DOMAIN ret
              /\ ret.unmet_str = Join([i \in 1..Len(unmet) |->
                                          Requirement__str__(unmet[i])],
                                      CommaSpace)

C18_Witness ==
    /\ pc = "create_cluster_raised"
    /\ Len(as_list(r1)) > 1
    /\ \A i \in 1..Len(as_list(r1)) :
           is_met(as_list(r1)[i], cluster) = (as_list(r1)[i].cls # "MemSize")
    /\ ret.raised = "RuntimeError"


\* The testset names of a work list, in order.
Names(tsl) == [i \in 1..Len(tsl) |-> tsl[i][1]]

\* C19: with --cluster, a turn of the loop hands the work items of the group
\* to run_testset, in order, exactly when get_unmet_requirements on the
\* supplied cluster is empty; otherwise each work item of the group is
\* recorded as not run once, with the list of the strs of the unmet
\* requirements, and nothing is run; either way no collaborator is asked for
\* a cluster, the cluster stays the supplied one, and the loop goes on to
\* the next group.
C19_ExistingClusterMode ==
    [][(use_existing_server /\ pc = "loop"
        /\ group_index < Len(testsets_grouped))
       => LET configuration == testsets_grouped[group_index + 1][1]
              tsl == testsets_grouped[group_index + 1][2]
              unmet == SelectSeq(as_list(configuration),
                                 LAMBDA r : ~is_met(r, cluster))
              text == Chars("Cluster provided does not satisfy test requirements:\n")
                      \o LBracket
                      \o Join([i \in 1..Len(unmet) |->
                                  Quote \o Requirement__str__(unmet[i])
                                  \o Quote], CommaSpace)
                      \o RBracket
          IN  /\ group_index' = group_index + 1
              /\ pc' = "loop"
              /\ calls' = calls
              /\ cluster' = cluster
              /\ IF unmet = <<>>
                 THEN ran' = ran \o Names(tsl)
                 ELSE /\ ran' = ran
                      /\ not_ran' = not_ran \o
                             [i \in 1..Len(tsl) |-> <<tsl[i][1], text>>]
                      /\ executed' = executed
                      /\ errors' = errors]_vars

\* A run on a supplied cluster that passed over one group and ran another.
C19_Witness ==
    /\ use_existing_server
    /\ pc \in {"finished", "error_exit"}
    /\ group_index = Len(testsets_grouped)
    /\ ran # <<>>
    /\ \E i \in 1..Len(not_ran) :
          \E g \in 1..Len(testsets_grouped) :
              /\ get_unmet_requirements(testsets_grouped[g][1], cluster) # <<>>
              /\ not_ran[i][2]
                   = reason(get_unmet_requirements(testsets_grouped[g][1],
                                                   cluster))

\* The classes whose requirement can be met on a cluster that exists.
Changeable == {"MemSize", "N2nEncryption"}

\* C20: can_be_met() is true exactly for MemSize and N2nEncryption;
\* make_met raises the RuntimeError "Cannot change Requirement ... after
\* cluster created", with the cluster as it was and nothing asked of it,
\* exactly for the classes whose can_be_met() is false; and once
\* MemSize.make_met has returned, the quota of the cluster is the exact
\* memsize of the requirement, or its min_memsize, so that is_met holds.
C20_MakeMetAgreesWithCanBeMet ==
    [][/\ pc' = "can_be_met" => ret' = (a.cls \in Changeable)
       /\ pc' \in {"make_met", "make_met_failed", "make_met_raised"}
          => /\ (pc' = "make_met_raised") <=> ~can_be_met(a)
             /\ (pc' = "make_met_raised") <=> (a.cls \notin Changeable)
             /\ pc' = "make_met_raised"
                => /\ cluster' = cluster
                   /\ calls' = calls
                   /\ ret'.raised = "RuntimeError"
                   /\ ret'.message
                        = Chars("Cannot change Requirement ")
                          \o Requirement__str__(a)
                          \o Chars(" after cluster created")
             /\ (pc' = "make_met" /\ a.cls = "MemSize")
                => /\ is_met(a, cluster')
                   /\ a.memsize # None
                      => cluster'.memsize = Val(a.memsize)
                   /\ a.memsize = None
                      => /\ cluster'.memsize >= Val(a.min_memsize)
                         /\ cluster'.memsize = Val(a.min_memsize)]_vars

\* MemSize.make_met returned for a min_memsize and for an exact memsize
\* above the smallest one: the quota was posted and the cluster has it.
C20_Witness ==
    /\ pc = "make_met"
    /\ a.cls = "MemSize"
    /\ a.memsize # None
    /\ Val(a.memsize) > MinMemSize
    /\ calls = << <<"post_succ", "/pools/default", Val(a.memsize)>> >>
    /\ cluster.memsize = Val(a.memsize)

\* The calls that only evaluate.
Evaluations ==
    {"is_met", "is_satisfiable", "get_unmet_requirements", "satisfied_by",
     "intersect", "raised"}

\* C21: is_met, is_satisfiable, get_unmet_requirements, satisfied_by and
\* intersect leave the cluster, the requirement sets and the requirement
\* they are called on as they were, and ask nothing of a collaborator;
\* the cluster changes only in make_met of a requirement that can_be_met
\* and in create_cluster.
C21_ReadOnlyEvaluation ==
    [][/\ pc' \in Evaluations
          => /\ cluster' = cluster
             /\ r1' = r1 /\ r2' = r2 /\ a' = a
             /\ calls' = calls
       /\ cluster' # cluster
          => \/ pc' = "make_met" /\ can_be_met(a)
             \/ pc' \in {"create_cluster", "create_cluster_raised"}]_vars

\* get_unmet_requirements has reported an unmet MemSize, which make_met
\* could have met, and the quota of the cluster is still not the one asked.
C21_Witness ==
    /\ pc = "get_unmet_requirements"
    /\ r1.requirements.memsize # None
    /\ ~is_met(Val(r1.requirements.memsize), cluster)
    /\ \E i \in 1..Len(ret) : ret[i].cls = "MemSize"
    /\ calls = <<>>

\* The group g is run: always without --cluster, and with it when the
\* supplied cluster leaves nothing unmet.
IsRun(g) ==
    \/ ~use_existing_server
    \/ get_unmet_requirements(testsets_grouped[g][1], cluster) = <<>>

\* The testset names of the groups g..n that are run, in order.
RECURSIVE HandedOver(_, _)
HandedOver(g, n) ==
    IF g > n THEN <<>>
    ELSE (IF IsRun(g) THEN Names(testsets_grouped[g][2]) ELSE <<>>)
         \o HandedOver(g + 1, n)

\* The sum of the executed counts of the results res.
RECURSIVE SumExecuted(_)
SumExecuted(res) ==
    IF res = <<>> THEN 0 ELSE Head(res)[1] + SumExecuted(Tail(res))

\* The parts k of the results from the i-th call on, one after the other,
\* of the calls that were made for the testset name (of every call when
\* name is empty).
RECURSIVE Reported(_, _, _)
Reported(name, k, i) ==
    IF i > Len(returned) THEN <<>>
    ELSE (IF name = <<>> \/ ran[i] = name THEN returned[i][k] ELSE <<>>)
         \o Reported(name, k, i + 1)

\* The errors that main holds for the testset name.
Recorded(name) ==
    IF \E k \in 1..Len(errors) : errors[k][1] = name
    THEN errors[CHOOSE k \in 1..Len(errors) : errors[k][1] = name][2]
    ELSE <<>>

\* What C22 says of the run apart from the errors that are kept: every work
\* item of every group that is run was handed to the runner once, in
\* order, whatever the earlier ones reported; the executed counts and the
\* not-run entries of the runner add up; a testset that reported errors
\* has errors recorded, and they are the ones it reported last; the run
\* ends after the last group, with the error exit iff errors were reported.
C22_RunGoesOn ==
    pc \in {"loop", "finished", "error_exit"}
    => /\ ran = HandedOver(1, group_index)
       /\ Len(returned) = Len(ran)
       /\ executed = SumExecuted(returned)
       /\ SelectSeq(not_ran, LAMBDA e : e[2] = Chars("not ran"))
            = Reported(<<>>, 3, 1)
       /\ \A i \in 1..Len(ran) :
             /\ returned[i][2] # <<>> => Recorded(ran[i]) # <<>>
             /\ Recorded(ran[i]) # <<>>
                => \E j \in 1..Len(ran) : /\ ran[j] = ran[i]
                                          /\ Recorded(ran[i]) = returned[j][2]
       /\ pc # "loop"
          => /\ group_index = Len(testsets_grouped)
             /\ (pc = "error_exit")
                <=> (\E i \in 1..Len(returned) : returned[i][2] # <<>>)

\* C22 (as claimed): errors do not stop the run, and what the runner
\* reported accumulates: the executed counts, the not-run entries, and for
\* every testset all the errors that were reported for it.
C22_FailuresDoNotAbort ==
    /\ C22_RunGoesOn
    /\ pc \in {"loop", "finished", "error_exit"}
       => \A i \in 1..Len(ran) : Recorded(ran[i]) = Reported(ran[i], 2, 1)

\* The requirement sets that the input declares for the work item w.
DeclaredFor(w) ==
    UNION {{testsets[i][4][j] :
               j \in {k \in 1..Len(testsets[i][4]) :
                         WorkItem(testsets[i], testsets[i][4][k]) = w}} :
           i \in 1..Len(testsets)}

\* Every present requirement of c has an equal one among those of rep.
CoveredBy(c, rep) ==
    \A i \in 1..Len(as_list(c)) :
        \E j \in 1..Len(as_list(rep)) :
            Requirement__eq__(as_list(c)[i], as_list(rep)[j])

\* Some clusters to build for a representative: one node or MaxNodes, all
\* connected and alike, either build, the smallest or the larger quota.
GroupClusters ==
    {cl \in Clusters :
        /\ ~cl.is_serverless /\ ~cl.is_provisioned
        /\ cl.default_num_vbuckets = 16
        /\ Len(cl.nodes) \in {1, MaxNodes}
        /\ Len(cl.connected_nodes) = Len(cl.nodes)
        /\ \A i \in 1..Len(cl.nodes) :
              cl.connected_nodes[i] = cl.connected_nodes[1]}

\* C23: in every group that group_testsets returns, the representative is
\* the requirement set of the first work item, every present requirement
\* of the requirement set of every work item has an equal one in the
\* representative, and a cluster that meets the representative meets the
\* requirement set of every work item.
C23_GroupValidity ==
    pc = "group_testsets" =>
        \A g \in 1..Len(testsets_grouped) :
            LET rep == testsets_grouped[g][1]
                tsl == testsets_grouped[g][2]
                meeting == {cl \in GroupClusters :
                               get_unmet_requirements(rep, cl) = <<>>}
            IN  /\ Len(tsl) > 0
                /\ rep \in DeclaredFor(tsl[1])
                /\ \A c \in DeclaredFor(tsl[1]) : c = rep
                /\ \A i \in 1..Len(tsl) :
                      /\ DeclaredFor(tsl[i]) # {}
                      /\ \A c \in DeclaredFor(tsl[i]) :
                            /\ CoveredBy(c, rep)
                            /\ \A cl \in meeting :
                                  get_unmet_requirements(c, cl) = <<>>

\* A group of two work items whose representative has requirements, met by
\* a cluster.
C23_Witness ==
    /\ pc = "group_testsets"
    /\ \E g \in 1..Len(testsets_grouped) :
          /\ Len(testsets_grouped[g][2]) >= 2
          /\ as_list(testsets_grouped[g][1]) # <<>>
          /\ testsets_grouped[g][2][2] # testsets_grouped[g][2][1]
          /\ \E cl \in GroupClusters :
                get_unmet_requirements(testsets_grouped[g][1], cl) = <<>>

\* The keys of a dict.
Keys(d) == {d[i][1] : i \in 1..Len(d)}

\* The value a dict holds for the key k.
At(d, k) == d[CHOOSE i \in 1..Len(d) : d[i][1] = k][2]

\* No key twice.
IsDict(d) == \A i, j \in 1..Len(d) : d[i][1] = d[j][1] => i = j

\* The fixed defaults of the start arguments.
StartDefaults ==
    << <<"dont_rename", Some(TRUE)>>, <<"wait_for_start", Some(TRUE)>>,
       <<"nooutput", Some(TRUE)>>, <<"num_nodes", Some(1)>>,
       <<"num_vbuckets", Some(16)>>,
       <<"env", Some(<< <<"BYPASS_SASLAUTHD", None>> >>)>> >>

\* The defaults of the connect arguments, given the final start arguments.
ConnectDefaults(start) ==
    << <<"protocol", Some("ipv4")>>, <<"create_bucket", Some(FALSE)>>,
       <<"num_nodes", At(start, "num_nodes")>> >>

\* layered is what the requirements reqs supply (their dicts being
\* supplied[i]) over the defaults, next to the keys of fixed.
Layered(layered, fixed, defaults, supplied) ==
    /\ IsDict(layered)
    /\ Keys(layered) = Keys(fixed) \cup Keys(defaults)
                       \cup UNION {Keys(supplied[i]) : i \in DOMAIN supplied}
    /\ \A k \in Keys(fixed) : At(layered, k) = At(fixed, k)
    /\ \A k \in Keys(layered) \ Keys(fixed) :
          IF \E i \in DOMAIN supplied : k \in Keys(supplied[i])
          THEN \A i \in DOMAIN supplied :
                  k \in Keys(supplied[i])
                  => At(layered, k) = At(supplied[i], k)
          ELSE At(layered, k) = At(defaults, k)

\* C24: the start arguments that create_cluster hands to build_cluster
\* hold start_index and root_dir; every other key has the value that a
\* present requirement supplies in its start_args, else the fixed default;
\* the connect arguments are layered the same way over protocol 'ipv4',
\* create_bucket false and the num_nodes of the final start arguments; and
\* no two present requirements supply the same key.
C24_ArgumentLayering ==
    pc \in {"create_cluster", "create_cluster_raised"}
    => LET call == calls[Len(calls)]
           start == call[2]
           connect == call[3]
           reqs == as_list(r1)
       IN  /\ call[1] = "build_cluster"
           /\ At(start, "start_index") = Some(args[1])
           /\ At(start, "root_dir")
                = Some(args[2] \o Minus \o IntStr(args[1]))
           /\ Layered(start,
                      << <<"start_index", Some(args[1])>>,
                         <<"root_dir", At(start, "root_dir")>> >>,
                      StartDefaults,
                      [i \in 1..Len(reqs) |-> start_args(reqs[i])])
           /\ Layered(connect,
                      << <<"start_index", Some(args[1])>> >>,
                      ConnectDefaults(start),
                      [i \in 1..Len(reqs) |-> connect_args(reqs[i])])
           /\ \A i, j \in 1..Len(reqs) :
                 i # j => /\ Keys(start_args(reqs[i]))
                             \cap Keys(start_args(reqs[j])) = {}
                          /\ Keys(connect_args(reqs[i]))
                             \cap Keys(connect_args(reqs[j])) = {}

\* create_cluster of a set with all eight kinds: the num_vbuckets and the
\* edition flags of the requirements are in the start arguments, the
\* address family and the quota in the connect arguments, over the defaults.
C24_Witness ==
    /\ pc = "create_cluster"
    /\ Len(as_list(r1)) = 8
    /\ args[1] = 1
    /\ At(calls[1][2], "num_vbuckets") = Some(MaxNumVbuckets)
    /\ At(calls[1][2], "dont_rename") = Some(TRUE)
    /\ At(calls[1][2], "force_community") = Some(TRUE)
    /\ At(calls[1][3], "protocol") = Some("ipv6")
    /\ At(calls[1][3], "memsize") = Some(2 * MinMemSize)
    /\ At(calls[1][3], "create_bucket") = Some(FALSE)

\* The work items of the input: <<k, j>> is the j-th configuration of the
\* k-th testset.
Declared ==
    UNION {{<<k, j>> : j \in 1..Len(testsets[k][4])} : k \in 1..Len(testsets)}

\* C25: after group_testsets, any two work items whose configurations have
\* the same canonical string are together in some group, and no two groups
\* have representatives with the same canonical string.
C25_EqualSetsShareOneGroup ==
    pc = "group_testsets" =>
        /\ \A x, y \in Declared :
               ClusterRequirements__str__(testsets[x[1]][4][x[2]])
                   = ClusterRequirements__str__(testsets[y[1]][4][y[2]])
               => \E g \in 1..Len(testsets_grouped) :
                      /\ Count(testsets_grouped[g][2],
                               WorkItem(testsets[x[1]],
                                        testsets[x[1]][4][x[2]])) > 0
                      /\ Count(testsets_grouped[g][2],
                               WorkItem(testsets[y[1]],
                                        testsets[y[1]][4][y[2]])) > 0
        /\ \A g, h \in 1..Len(testsets_grouped) :
               g # h => ClusterRequirements__str__(testsets_grouped[g][1])
                            # ClusterRequirements__str__(testsets_grouped[h][1])

\* C26: after create_cluster with a provisioner that does what it is asked,
\* when the set has a NumNodes requirement, connect_args['num_nodes'] handed
\* to build_cluster is an integer from 1 to start_args['num_nodes'], and the
\* cluster built meets the NumNodes requirement and the MemSize requirement
\* of the set.
C26_ProvisioningArgsConsistent ==
    (pc \in {"create_cluster", "create_cluster_raised"}
     /\ r1.requirements.num_nodes # None) =>
        LET start == calls[1][2]
            connect == calls[1][3]
        IN  /\ dict_get(connect, "num_nodes") # None
            /\ 1 <= Val(dict_get(connect, "num_nodes"))
            /\ Val(dict_get(connect, "num_nodes"))
                   <= Val(dict_get(start, "num_nodes"))
            /\ is_met(Val(r1.requirements.num_nodes), cluster)
            /\ r1.requirements.memsize # None
               => is_met(Val(r1.requirements.memsize), cluster)

\* Clusters to hold the merged requirements against: either build, every
\* count of nodes and of connected nodes, the nodes all alike, either quota
\* and either number of vbuckets.
SoundClusters ==
    {cl \in Clusters :
        /\ ~cl.is_serverless /\ ~cl.is_provisioned
        /\ \A i \in 1..Len(cl.connected_nodes) :
               cl.connected_nodes[i] = cl.connected_nodes[1]}

\* Every present requirement of the set reqs is met on the cluster cl.
AllMet(reqs, cl) ==
    \A i \in 1..Len(as_list(reqs)) : is_met(as_list(reqs)[i], cl)

\* C27: r1.intersect(r2) does not raise, and when it returns (True, m),
\* every cluster on which all present requirements of m are met has all
\* present requirements of r1 and all those of r2 met.
C27_IntersectSound ==
    /\ pc # "raised"
    /\ (pc = "intersect" /\ ret[1]) =>
           \A cl \in SoundClusters :
               AllMet(ret[2], cl) => AllMet(r1, cl) /\ AllMet(r2, cl)

C27_Witness ==
    /\ pc = "intersect" /\ ret[1]
    /\ r1.requirements.num_nodes # None /\ r2.requirements.num_nodes # None
    /\ r1.requirements.memsize # None /\ r2.requirements.memsize # None
    /\ ret[2].requirements.num_nodes \notin
           {r1.requirements.num_nodes, r2.requirements.num_nodes}
    /\ r1.requirements.memsize # r2.requirements.memsize
    /\ \E cl \in SoundClusters : AllMet(ret[2], cl)
    /\ \E cl \in SoundClusters : AllMet(r1, cl) /\ ~AllMet(r2, cl)

\* C28: for a NumNodes or MemSize a, a.intersect(a) returns True with a
\* requirement that compares equal to a.
C28_IntersectIdempotent ==
    (pc = "req_intersect" /\ a = b /\ a.cls \in {"NumNodes", "MemSize"}) =>
        /\ ret[1][1]
        /\ ret[1][2] # None
        /\ Requirement__eq__(Val(ret[1][2]), a)

\* C29: when is_met of an Edition requirement returns True on a cluster, the
\* Edition requirement of no other edition is met on that cluster.
C29_EditionsExclusive ==
    (pc = "is_met" /\ a.cls = "Edition" /\ ret) =>
        \A e \in editions \ {Val(a.edition)} :
            ~is_met(Edition(Some(e)), cluster)

\* C30: a NumNodes built with num_nodes=n and no connected parameter
\* compares equal to the NumNodes built with num_nodes=n, num_connected=n,
\* as the two NumNodes of api_tests built that way do.
C30_NumNodesEquality ==
    \A n \in 1..MaxNodes :
        (/\ pc = "eq"
         /\ a = NumNodes(Some(n), None, None, None)
         /\ b = NumNodes(Some(n), None, Some(n), None)) =>
            /\ Api_Requirement__eq__(Api_NumNodes(n, None),
                                     Api_NumNodes(n, Some(n)))
            /\ \A cl \in Clusters : is_met(a, cl) = is_met(b, cl)
            /\ ret
====
